---- MODULE Spec2Model ----
(***************************************************************************)
(* PhotoDupeDrop: near-duplicate photo detection.                          *)
(*                                                                         *)
(*   - the deduplication engine  (src/utils/matchDeduplication.ts)         *)
(*   - the fingerprint packing   (pHash.ts, PHashModule.kt)                *)
(*   - the gallery run           (GalleryTab: batches, pause, cancel)      *)
(*                                                                         *)
(* The specifications of the module:                                       *)
(*   SpecValidity, SpecSubset, SpecReciprocal, SpecTemporal                *)
(*               the deduplication functions applied to bounded lists of   *)
(*               candidates,                                               *)
(*   SpecHash    generateHashFromDCT of both platform paths applied to     *)
(*               bounded blocks of coefficients,                           *)
(*   Spec        the gallery run over a photo library,                     *)
(*   SpecCounter the view quota counter (ViewCounter) under calls in       *)
(*               flight together.                                          *)
(***************************************************************************)
EXTENDS Integers, Sequences, FiniteSets, TLC

VARIABLES
    family,     \* dedupe: the family of candidates the input list is drawn from
    rawIn,      \* dedupe: the list of MatchResult handed to the deduplicator
    stages,     \* dedupe: the output of every stage, once dedupe has run
    platform,   \* Platform.OS, "native" (android, ios) or "web"
    dct,        \* SpecHash: the matrix of DCT coefficients handed to generateHashFromDCT
    pHash,      \* SpecHash: the fingerprint it returned, <<>> before the call
    dct2,       \* SpecPairs: the second matrix of the pair
    hashA,      \* a first fingerprint, <<>> when there is none
    hashB,      \* a second fingerprint
    measured,   \* the outcome of calculateHammingDistance(hashA, hashB), <<>> before the call
    device,                 \* Spec: the photos on the device
    hasPermission,          \* Spec: "undetermined", "granted" or "denied"
    allPhotos,              \* Spec: the component state of the gallery screen
    matchResults,
    matchGroups,
    processedCount,
    processingMatches,
    processingPaused,
    processingCancelledRef, \* Spec: the two control flags
    processingPausedRef,
    runs,                   \* Spec: the calls of findMatchingGroupsWithRealTimeResults
    pendingLoads,           \* Spec: the calls of loadAllPhotos still reading the device
    deletions,              \* Spec: the number of photos deleted
    state,      \* SpecCounter: ViewCounter.state, <<>> while it is null
    storage,    \* SpecCounter: the AsyncStorage item of the counter, <<>> when absent
    calls,      \* SpecCounter: the calls of decrementView and resetCounter in flight
    requests    \* SpecCounter: the calls with a getItem or setItem pending, oldest first

dedupeVars == <<family, rawIn, stages>>

distanceVars == <<dct2, hashA, hashB, measured>>

hashVars == <<dct, pHash, distanceVars>>

galleryVars == <<device, hasPermission, allPhotos, matchResults, matchGroups,
                 processedCount, processingMatches, processingPaused,
                 processingCancelledRef, processingPausedRef, runs, pendingLoads,
                 deletions>>

counterVars == <<state, storage, calls, requests>>

vars == <<platform, dedupeVars, hashVars, galleryVars, counterVars>>

DistanceIdle ==
    /\ dct2 = <<>>
    /\ hashA = <<>>
    /\ hashB = <<>>
    /\ measured = <<>>

CounterIdle ==
    /\ state = <<>>
    /\ storage = <<>>
    /\ calls = <<>>
    /\ requests = <<>>

GalleryIdle ==
    /\ device = <<>>
    /\ hasPermission = "undetermined"
    /\ allPhotos = <<>>
    /\ matchResults = <<>>
    /\ matchGroups = <<>>
    /\ processedCount = 0
    /\ processingMatches = FALSE
    /\ processingPaused = FALSE
    /\ processingCancelledRef = FALSE
    /\ processingPausedRef = FALSE
    /\ runs = <<>>
    /\ pendingLoads = 0
    /\ deletions = 0

(***************************************************************************)
(* Numbers.  confidence and hammingDistance are JS numbers obtained by one *)
(* division (totalDistance / validComparisons); they are kept exactly as   *)
(* fractions n/d with d > 0 and compared by cross-multiplication.          *)
(***************************************************************************)
Rat(n, d) == [n |-> n, d |-> d]

RatLT(a, b) == a.n * b.d < b.n * a.d

RatGT(a, b) == RatLT(b, a)

RatEQ(a, b) == a.n * b.d = b.n * a.d

RatTimes(a, k) == Rat(a.n * k, a.d)

Min2(a, b) == IF a <= b THEN a ELSE b

Max2(a, b) == IF a >= b THEN a ELSE b

Range(s) == {s[i] : i \in 1..Len(s)}

(***************************************************************************)
(* MatchDeduplicator (matchDeduplication.ts).  A MatchResult is            *)
(*   [id, photos, confidence, timeWindow, status, hammingDistance]         *)
(* with photos the list of photo ids (the deduplicator reads only p.id and *)
(* photos.length of a photo list).                                         *)
(***************************************************************************)
PhotoIdSet(m) == Range(m.photos)

\* a slip in isSubsetMatch: the size test lets sets of equal size through
isSubsetMatch_SameSize(matchA, matchB) ==
    LET photoIdsA == PhotoIdSet(matchA)
        photoIdsB == PhotoIdSet(matchB)
    IN  IF Cardinality(photoIdsA) > Cardinality(photoIdsB)
        THEN FALSE
        ELSE \A photoId \in photoIdsA : photoId \in photoIdsB

\* isSubsetMatch(matchA, matchB): A's id set is strictly smaller and inside B's
isSubsetMatch(matchA, matchB) ==
    LET photoIdsA == PhotoIdSet(matchA)
        photoIdsB == PhotoIdSet(matchB)
    IN  IF Cardinality(photoIdsA) >= Cardinality(photoIdsB)
        THEN FALSE
        ELSE \A photoId \in photoIdsA : photoId \in photoIdsB

RECURSIVE removeSubsetLoop(_, _, _)
removeSubsetLoop(matches, i, filteredMatches) ==
    IF i > Len(matches)
    THEN filteredMatches
    ELSE LET currentMatch == matches[i]
             isSubset == \E j \in 1..Len(filteredMatches) :
                             isSubsetMatch(currentMatch, filteredMatches[j])
             kept == SelectSeq(filteredMatches,
                               LAMBDA m : ~isSubsetMatch(m, currentMatch))
         IN  IF isSubset
             THEN removeSubsetLoop(matches, i + 1, filteredMatches)
             ELSE removeSubsetLoop(matches, i + 1, Append(kept, currentMatch))

removeSubsetMatches(matches) == removeSubsetLoop(matches, 1, <<>>)

\* Array.prototype.sort() of the id list (ascending)
RECURSIVE InsertId(_, _)
InsertId(x, s) ==
    IF s = <<>> THEN <<x>>
    ELSE IF x < Head(s) THEN <<x>> \o s
    ELSE <<Head(s)>> \o InsertId(x, Tail(s))

RECURSIVE SortIds(_)
SortIds(s) == IF s = <<>> THEN <<>> ELSE InsertId(Head(s), SortIds(Tail(s)))

\* a slip in generatePairKey: the ids are joined as they come
generatePairKey_Unsorted(photoIds) == photoIds

\* generatePairKey: photoIds.sort().join('|'); the joined string of two id
\* lists is the same exactly when the sorted lists are (ids hold no '|')
generatePairKey(photoIds) == SortIds(photoIds)

RECURSIVE removeReciprocalLoop(_, _, _, _)
removeReciprocalLoop(matches, i, processedPairs, filteredMatches) ==
    IF i > Len(matches)
    THEN filteredMatches
    ELSE LET match == matches[i]
             pairKey == generatePairKey(match.photos)
         IN  IF pairKey \notin processedPairs
             THEN removeReciprocalLoop(matches, i + 1,
                      processedPairs \cup {pairKey}, Append(filteredMatches, match))
             ELSE removeReciprocalLoop(matches, i + 1, processedPairs, filteredMatches)

removeReciprocalMatches(matches) == removeReciprocalLoop(matches, 1, {}, <<>>)

\* a slip in calculatePhotoOverlap: the shared ids over A's ids, not the union
calculatePhotoOverlap_OverA(matchA, matchB) ==
    Rat(Cardinality(PhotoIdSet(matchA) \cap PhotoIdSet(matchB)),
        Cardinality(PhotoIdSet(matchA)))

\* calculatePhotoOverlap: |A \cap B| / |A \cup B|
calculatePhotoOverlap(matchA, matchB) ==
    Rat(Cardinality(PhotoIdSet(matchA) \cap PhotoIdSet(matchB)),
        Cardinality(PhotoIdSet(matchA) \cup PhotoIdSet(matchB)))

\* a slip in calculateTimeOverlap: Math.min and Math.max swapped in the overlap
calculateTimeOverlap_Swapped(matchA, matchB) ==
    LET startA == matchA.timeWindow.start
        endA == matchA.timeWindow.end
        startB == matchB.timeWindow.start
        endB == matchB.timeWindow.end
        overlapStart == Min2(startA, startB)
        overlapEnd == Max2(endA, endB)
    IN  IF overlapStart >= overlapEnd
        THEN Rat(0, 1)
        ELSE Rat(overlapEnd - overlapStart, Max2(endA, endB) - Min2(startA, startB))

\* calculateTimeOverlap: 0 when the windows do not intersect, else the share
\* of the joint span that both windows cover
calculateTimeOverlap(matchA, matchB) ==
    LET startA == matchA.timeWindow.start
        endA == matchA.timeWindow.end
        startB == matchB.timeWindow.start
        endB == matchB.timeWindow.end
        overlapStart == Max2(startA, startB)
        overlapEnd == Min2(endA, endB)
    IN  IF overlapStart >= overlapEnd
        THEN Rat(0, 1)
        ELSE Rat(overlapEnd - overlapStart, Max2(endA, endB) - Min2(startA, startB))

RECURSIVE removeTemporalLoop(_, _, _)
removeTemporalLoop(matches, i, filteredMatches) ==
    IF i > Len(matches)
    THEN filteredMatches
    ELSE LET currentMatch == matches[i]
             hasSignificantOverlap ==
                 \E j \in 1..Len(filteredMatches) :
                     /\ RatGT(calculatePhotoOverlap(currentMatch, filteredMatches[j]), Rat(1, 2))
                     /\ RatGT(calculateTimeOverlap(currentMatch, filteredMatches[j]), Rat(0, 1))
         IN  IF hasSignificantOverlap
             THEN removeTemporalLoop(matches, i + 1, filteredMatches)
             ELSE removeTemporalLoop(matches, i + 1, Append(filteredMatches, currentMatch))

removeTemporalOverlaps(matches) == removeTemporalLoop(matches, 1, <<>>)

\* [...matches].sort((a, b) => b.confidence - a.confidence): stable, descending
RECURSIVE InsertByConfidence(_, _)
InsertByConfidence(x, s) ==
    IF s = <<>> THEN <<x>>
    ELSE IF RatGT(x.confidence, Head(s).confidence) THEN <<x>> \o s
    ELSE <<Head(s)>> \o InsertByConfidence(x, Tail(s))

RECURSIVE SortByConfidenceLoop(_, _, _)
SortByConfidenceLoop(matches, i, sorted) ==
    IF i > Len(matches) THEN sorted
    ELSE SortByConfidenceLoop(matches, i + 1, InsertByConfidence(matches[i], sorted))

SortByConfidence(matches) == SortByConfidenceLoop(matches, 1, <<>>)

deduplicateMatches(matches) ==
    IF Len(matches) <= 1
    THEN matches
    ELSE LET sortedMatches == SortByConfidence(matches)
             withoutSubsets == removeSubsetMatches(sortedMatches)
             withoutReciprocals == removeReciprocalMatches(withoutSubsets)
         IN  removeTemporalOverlaps(withoutReciprocals)

\* the inner loop of identifyPhotoClusters: the not yet processed matches
\* that overlap the cluster's first match by more than 30%
RECURSIVE clusterJoinLoop(_, _, _, _, _)
clusterJoinLoop(matches, seed, j, cluster, processed) ==
    IF j > Len(matches)
    THEN [cluster |-> cluster, processed |-> processed]
    ELSE LET otherMatch == matches[j]
         IN  IF otherMatch.id \in processed
             THEN clusterJoinLoop(matches, seed, j + 1, cluster, processed)
             ELSE IF RatGT(calculatePhotoOverlap(seed, otherMatch), Rat(3, 10))
                  THEN clusterJoinLoop(matches, seed, j + 1,
                           Append(cluster, otherMatch), processed \cup {otherMatch.id})
                  ELSE clusterJoinLoop(matches, seed, j + 1, cluster, processed)

RECURSIVE identifyClustersLoop(_, _, _, _)
identifyClustersLoop(matches, i, clusters, processed) ==
    IF i > Len(matches)
    THEN clusters
    ELSE LET match == matches[i]
         IN  IF match.id \in processed
             THEN identifyClustersLoop(matches, i + 1, clusters, processed)
             ELSE LET r == clusterJoinLoop(matches, match, 1, <<match>>,
                                           processed \cup {match.id})
                  IN  identifyClustersLoop(matches, i + 1,
                          Append(clusters, r.cluster), r.processed)

identifyPhotoClusters_Apart(matches) == [k \in 1..Len(matches) |-> <<matches[k]>>]

identifyPhotoClusters(matches) == identifyClustersLoop(matches, 1, <<>>, {})

\* cluster.reduce(...): the first member with the largest confidence * photos.length
RECURSIVE bestOfCluster(_, _, _)
bestOfCluster(cluster, i, best) ==
    IF i > Len(cluster)
    THEN best
    ELSE LET current == cluster[i]
             bestScore == RatTimes(best.confidence, Len(best.photos))
             currentScore == RatTimes(current.confidence, Len(current.photos))
         IN  bestOfCluster(cluster, i + 1,
                           IF RatGT(currentScore, bestScore) THEN current ELSE best)

representativeOf_First(cluster) == cluster[1]

representativeOf(cluster) ==
    IF Len(cluster) = 1 THEN cluster[1] ELSE bestOfCluster(cluster, 2, cluster[1])

advancedDeduplication(matches) ==
    IF Len(matches) <= 1
    THEN matches
    ELSE LET clusters == identifyPhotoClusters(matches)
             representativeMatches ==
                 [c \in 1..Len(clusters) |-> representativeOf(clusters[c])]
         IN  SortByConfidence(representativeMatches)

DayMs == 24 * 60 * 60 * 1000

\* a slip in the filter: pairs at confidence 70 are dropped as well
validMatch_AtSeventy(match) ==
    IF Len(match.photos) = 2 /\ ~RatGT(match.confidence, Rat(70, 1))
    THEN FALSE
    ELSE IF RatGT(match.hammingDistance, Rat(25, 1))
    THEN FALSE
    ELSE IF match.timeWindow.end - match.timeWindow.start > DayMs
    THEN FALSE
    ELSE TRUE

\* a slip in the filter: pairs are dropped below confidence 60
validMatch_AtSixty(match) ==
    IF Len(match.photos) = 2 /\ RatLT(match.confidence, Rat(60, 1))
    THEN FALSE
    ELSE IF RatGT(match.hammingDistance, Rat(25, 1))
    THEN FALSE
    ELSE IF match.timeWindow.end - match.timeWindow.start > DayMs
    THEN FALSE
    ELSE TRUE

\* validateAndCleanMatches: the filter of Stage A
validMatch(match) ==
    IF Len(match.photos) = 2 /\ RatLT(match.confidence, Rat(70, 1))
    THEN FALSE
    ELSE IF RatGT(match.hammingDistance, Rat(25, 1))
    THEN FALSE
    ELSE IF match.timeWindow.end - match.timeWindow.start > DayMs
    THEN FALSE
    ELSE TRUE

validateAndCleanMatches(matches) == SelectSeq(matches, validMatch)

processMatchesWithDeduplication(rawMatches) ==
    LET validMatches == validateAndCleanMatches(rawMatches)
        deduplicatedMatches == deduplicateMatches(validMatches)
    IN  advancedDeduplication(deduplicatedMatches)

(***************************************************************************)
(* The deduplicator applied to bounded candidate lists.  The input list is *)
(* drawn from one family of candidates; each family has its specification: *)
(*   SpecValidity    2- and 3-photo candidates around the Stage A limits,  *)
(*   SpecSubset      every photo-id set out of 1..SubsetIds,               *)
(*   SpecReciprocal  every ordering of the photos of every set out of      *)
(*                   1..ReciprocalIds,                                     *)
(*   SpecTemporal    every set of MinGroup..MaxGroup ids out of            *)
(*                   1..TemporalIds, in two time windows.                  *)
(* A candidate's id is its position in the input, so ids are distinct, as  *)
(* they are for the candidates of one run.                                 *)
(***************************************************************************)
MaxRaw == 3

SubsetIds == 3

ReciprocalIds == 3

TemporalIds == 5

ClusterIds == 5

MinGroup == 3

MaxGroup == 4

MinuteMs == 60 * 1000

Window(startMin, endMin) == [start |-> startMin * MinuteMs, end |-> endMin * MinuteMs]

\* the lists of k distinct ids out of 1..n, in any order / in ascending order
Orderings(n, k) == {s \in [1..k -> 1..n] : \A i, j \in 1..k : i # j => s[i] # s[j]}

Ascending(n, k) == {s \in [1..k -> 1..n] : \A i \in 1..(k - 1) : s[i] < s[i + 1]}

Families == {"validity", "subset", "reciprocal", "temporal", "cluster"}

Universe(f) ==
    IF f = "validity"
    THEN [photos : {<<1, 2>>, <<1, 2, 3>>},
          confidence : {Rat(65, 1), Rat(70, 1), Rat(75, 1)},
          hammingDistance : {Rat(25, 1), Rat(51, 2)},
          timeWindow : {[start |-> 0, end |-> DayMs],
                        [start |-> 0, end |-> DayMs + 1]}]
    ELSE IF f = "subset"
    THEN [photos : UNION {Ascending(SubsetIds, k) : k \in 2..SubsetIds},
          confidence : {Rat(80, 1), Rat(90, 1)},
          hammingDistance : {Rat(5, 1)},
          timeWindow : {Window(0, 30)}]
    ELSE IF f = "reciprocal"
    THEN [photos : UNION {Orderings(ReciprocalIds, k) : k \in 2..ReciprocalIds},
          confidence : {Rat(80, 1), Rat(90, 1)},
          hammingDistance : {Rat(5, 1)},
          timeWindow : {Window(0, 30)}]
    ELSE IF f = "temporal"
    THEN [photos : UNION {Ascending(TemporalIds, k) : k \in MinGroup..MaxGroup},
          confidence : {Rat(80, 1), Rat(90, 1)},
          hammingDistance : {Rat(5, 1)},
          timeWindow : {Window(0, 30), Window(40, 70)}]
    ELSE [photos : UNION {Ascending(ClusterIds, k) : k \in MinGroup..MaxGroup},
          confidence : {Rat(60, 1), Rat(80, 1)},
          hammingDistance : {Rat(5, 1)},
          timeWindow : {Window(0, 30)}]

MakeMatch(c, id) ==
    [id |-> id, photos |-> c.photos, confidence |-> c.confidence,
     timeWindow |-> c.timeWindow, status |-> "pending",
     hammingDistance |-> c.hammingDistance]

NoStages == [done |-> FALSE]

\* every stage of processMatchesWithDeduplication(rawMatches), kept apart
RunStages(rawMatches) ==
    LET validMatches == validateAndCleanMatches(rawMatches)
        sortedMatches == SortByConfidence(validMatches)
        withoutSubsets == removeSubsetMatches(sortedMatches)
        withoutReciprocals == removeReciprocalMatches(withoutSubsets)
        finalMatches == removeTemporalOverlaps(withoutReciprocals)
        result == processMatchesWithDeduplication(rawMatches)
    IN  [done |-> TRUE,
         validMatches |-> validMatches,
         sortedMatches |-> sortedMatches,
         withoutSubsets |-> withoutSubsets,
         subsetsUnsorted |-> removeSubsetMatches(validMatches),
         withoutReciprocals |-> withoutReciprocals,
         temporalOfSorted |-> removeTemporalOverlaps(sortedMatches),
         finalMatches |-> finalMatches,
         deduplicated |-> deduplicateMatches(validMatches),
         result |-> result,
         again |-> processMatchesWithDeduplication(result),
         clusters |-> identifyPhotoClusters(rawMatches),
         representatives |-> advancedDeduplication(rawMatches)]

HashIdle ==
    /\ platform = "web"
    /\ dct = <<>>
    /\ pHash = <<>>
    /\ DistanceIdle

InitFamily(f) ==
    /\ family = f
    /\ rawIn = <<>>
    /\ stages = NoStages
    /\ HashIdle
    /\ GalleryIdle
    /\ CounterIdle

\* one more raw candidate arrives
AddRaw ==
    /\ ~stages.done
    /\ Len(rawIn) < MaxRaw
    /\ \E c \in Universe(family) :
           rawIn' = Append(rawIn, MakeMatch(c, Len(rawIn) + 1))
    /\ UNCHANGED <<family, stages, platform, counterVars, hashVars, galleryVars>>

\* dedupe runs over the snapshot of raw candidates
RunDedupe ==
    /\ ~stages.done
    /\ stages' = RunStages(rawIn)
    /\ UNCHANGED <<family, rawIn, platform, counterVars, hashVars, galleryVars>>

NextDedupe == AddRaw \/ RunDedupe

SpecValidity == InitFamily("validity") /\ [][NextDedupe]_vars

SpecSubset == InitFamily("subset") /\ [][NextDedupe]_vars

SpecReciprocal == InitFamily("reciprocal") /\ [][NextDedupe]_vars

SpecTemporal == InitFamily("temporal") /\ [][NextDedupe]_vars

SpecCluster == InitFamily("cluster") /\ [][NextDedupe]_vars

(***************************************************************************)
(* The fingerprint (pHash.ts for the web, PHashModule.kt for android/ios). *)
(* A fingerprint is a string of hex digits, kept as the list of its        *)
(* characters.                                                             *)
(***************************************************************************)
hashSize == 8

HexChars == <<"0", "1", "2", "3", "4", "5", "6", "7",
              "8", "9", "A", "B", "C", "D", "E", "F">>

\* Number.toString(16).toUpperCase() / Int.toString(16).uppercase() of 0..15
ToHexChar(v) == HexChars[v + 1]

\* parseInt(chunk, 2) / chunk.toInt(2): the number a string of bits spells
RECURSIVE ParseBinary(_)
ParseBinary(chunk) ==
    IF chunk = <<>> THEN 0
    ELSE 2 * ParseBinary(SubSeq(chunk, 1, Len(chunk) - 1)) + chunk[Len(chunk)]

\* String.padEnd(4, '0')
RECURSIVE PadEnd(_, _)
PadEnd(chunk, n) == IF Len(chunk) >= n THEN chunk ELSE PadEnd(Append(chunk, 0), n)

\* the 63 coefficients of the top-left 8x8 block without [0][0], row by row
Coefficients(dctCoefficients) ==
    [n \in 1..(hashSize * hashSize - 1) |->
        dctCoefficients[n \div hashSize][n % hashSize]]

\* [...coefficients].sort((a, b) => a - b) / coefficients.sorted(): the
\* ascending arrangement of the numbers, entry k being the value with fewer
\* than k smaller entries and at least k entries not above it
SortAscending(s) ==
    [k \in 1..Len(s) |->
        CHOOSE v \in Range(s) :
            /\ Cardinality({m \in 1..Len(s) : s[m] < v}) < k
            /\ Cardinality({m \in 1..Len(s) : s[m] <= v}) >= k]

\* sortedCoefficients[Math.floor(length / 2)], a 0-based index
Median(coefficients) == SortAscending(coefficients)[(Len(coefficients) \div 2) + 1]

BinaryHash_AtOrAbove(coefficients) ==
    LET median == Median(coefficients)
    IN  [n \in 1..Len(coefficients) |-> IF coefficients[n] >= median THEN 1 ELSE 0]

\* binaryHash: one bit per coefficient, 1 when it is above the median
BinaryHash(coefficients) ==
    LET median == Median(coefficients)
    IN  [n \in 1..Len(coefficients) |-> IF coefficients[n] > median THEN 1 ELSE 0]

\* pHash.ts: binaryHash.substr(i, 4), parseInt(chunk, 2).toString(16)
RECURSIVE HexOfBinaryWeb(_, _)
HexOfBinaryWeb(binaryHash, i) ==
    IF i > Len(binaryHash) THEN <<>>
    ELSE LET binaryChunk == SubSeq(binaryHash, i, Min2(i + 3, Len(binaryHash)))
         IN  <<ToHexChar(ParseBinary(binaryChunk))>> \o HexOfBinaryWeb(binaryHash, i + 4)

\* PHashModule.kt: substring(i, minOf(i + 4, length)).padEnd(4, '0').toInt(2).toString(16)
RECURSIVE HexOfBinaryNative(_, _)
HexOfBinaryNative(binaryHash, i) ==
    IF i > Len(binaryHash) THEN <<>>
    ELSE LET binaryChunk == SubSeq(binaryHash, i, Min2(i + 3, Len(binaryHash)))
             paddedChunk == PadEnd(binaryChunk, 4)
         IN  <<ToHexChar(ParseBinary(paddedChunk))>> \o HexOfBinaryNative(binaryHash, i + 4)

generateHashFromDCTWeb(dctCoefficients) ==
    HexOfBinaryWeb(BinaryHash(Coefficients(dctCoefficients)), 1)

generateHashFromDCTNative(dctCoefficients) ==
    HexOfBinaryNative(BinaryHash(Coefficients(dctCoefficients)), 1)

\* calculatePHash: the native module on android and ios, the canvas code on the web
generateHashFromDCT(os, dctCoefficients) ==
    IF os = "native"
    THEN generateHashFromDCTNative(dctCoefficients)
    ELSE generateHashFromDCTWeb(dctCoefficients)

(***************************************************************************)
(* SpecHash: generateHashFromDCT applied to bounded coefficient matrices.  *)
(* A matrix of the family is a step with marked cells: the first `low`     *)
(* coefficients (row by row) are 0, the others 1, and the marked ones      *)
(* among the first cell and the last MaxTail cells are 2.                  *)
(***************************************************************************)
MaxTail == 3

NumCoefficients == hashSize * hashSize - 1

MarkCells == {1} \cup {n \in 1..NumCoefficients : n > NumCoefficients - MaxTail}

StepMatrix(low, marked) ==
    [i \in 0..(hashSize - 1) |->
        [j \in 0..(hashSize - 1) |->
            LET n == i * hashSize + j
            IN  IF n \in marked THEN 2 ELSE IF n <= low THEN 0 ELSE 1]]

DedupeIdle ==
    /\ family = "validity"
    /\ rawIn = <<>>
    /\ stages = NoStages

InitHash ==
    /\ platform \in {"native", "web"}
    /\ \E low \in 0..NumCoefficients : \E marked \in SUBSET MarkCells :
           dct = StepMatrix(low, marked)
    /\ pHash = <<>>
    /\ DistanceIdle
    /\ DedupeIdle
    /\ CounterIdle
    /\ GalleryIdle

\* the fingerprint of the matrix is computed
GenerateHash ==
    /\ pHash = <<>>
    /\ pHash' = generateHashFromDCT(platform, dct)
    /\ UNCHANGED <<platform, counterVars, dct, distanceVars, dedupeVars, galleryVars>>

NextHash == GenerateHash

SpecHash == InitHash /\ [][NextHash]_vars

(***************************************************************************)
(* The Hamming distance of two fingerprints (pHash.ts, PHashModule.kt).    *)
(***************************************************************************)
\* parseInt(c, 16) / c.toString().toInt(16) of one hex character
ParseHex(c) == CHOOSE v \in 0..15 : HexChars[v + 1] = c

Xor_Or(a, b) ==
    LET bit(x, k) == (x \div k) % 2
        one(k) == IF bit(a, k) = 1 \/ bit(b, k) = 1 THEN k ELSE 0
    IN  one(1) + one(2) + one(4) + one(8)

Xor_AndNot(a, b) ==
    LET bit(x, k) == (x \div k) % 2
        one(k) == IF bit(a, k) = 1 /\ bit(b, k) = 0 THEN k ELSE 0
    IN  one(1) + one(2) + one(4) + one(8)

\* int1 ^ int2 on 4-bit values
Xor(a, b) ==
    LET bit(x, k) == (x \div k) % 2
        one(k) == IF bit(a, k) # bit(b, k) THEN k ELSE 0
    IN  one(1) + one(2) + one(4) + one(8)

\* while (xor !== 0) { distance += xor & 1; xor >>= 1 }
RECURSIVE CountSetBits(_)
CountSetBits(xor) == IF xor = 0 THEN 0 ELSE (xor % 2) + CountSetBits(xor \div 2)

RECURSIVE hammingLoop(_, _, _, _)
hammingLoop(hash1, hash2, i, distance) ==
    IF i > Len(hash1) THEN distance
    ELSE hammingLoop(hash1, hash2, i + 1,
             distance + CountSetBits(Xor(ParseHex(hash1[i]), ParseHex(hash2[i]))))

Thrown == [ok |-> FALSE, distance |-> 0]

Returned(distance) == [ok |-> TRUE, distance |-> distance]

\* PHashModule.kt hammingDistance, rejected as HAMMING_ERROR when it throws
hammingDistance(hash1, hash2) ==
    IF Len(hash1) # Len(hash2) THEN Thrown
    ELSE Returned(hammingLoop(hash1, hash2, 1, 0))

hammingDistanceJS_NoLengthCheck(hash1, hash2) ==
    LET n == Min2(Len(hash1), Len(hash2))
    IN  Returned(hammingLoop(SubSeq(hash1, 1, n), SubSeq(hash2, 1, n), 1, 0))

\* pHash.ts, the JavaScript implementation
hammingDistanceJS(hash1, hash2) ==
    IF Len(hash1) # Len(hash2) THEN Thrown
    ELSE Returned(hammingLoop(hash1, hash2, 1, 0))

\* pHash.ts calculateHammingDistance: the native module first on android and
\* ios, the JavaScript implementation when it rejects and on the web
calculateHammingDistance(os, hash1, hash2) ==
    IF os = "native" /\ hammingDistance(hash1, hash2).ok
    THEN hammingDistance(hash1, hash2)
    ELSE hammingDistanceJS(hash1, hash2)

(***************************************************************************)
(* SpecDistance: calculateHammingDistance applied to every pair of strings *)
(* of hex digits of at most MaxHexLen characters, on both platforms.       *)
(***************************************************************************)
MaxHexLen == 2

HexStrings == UNION {[1..n -> Range(HexChars)] : n \in 0..MaxHexLen}

InitDistance ==
    /\ platform \in {"native", "web"}
    /\ hashA \in HexStrings
    /\ hashB \in HexStrings
    /\ measured = <<>>
    /\ dct = <<>>
    /\ dct2 = <<>>
    /\ pHash = <<>>
    /\ DedupeIdle
    /\ CounterIdle
    /\ GalleryIdle

\* calculateHammingDistance(hashA, hashB) settles
MeasureDistance ==
    /\ measured = <<>>
    /\ measured' = calculateHammingDistance(platform, hashA, hashB)
    /\ UNCHANGED <<platform, counterVars, dct, pHash, dct2, hashA, hashB, dedupeVars, galleryVars>>

NextDistance == MeasureDistance

SpecDistance == InitDistance /\ [][NextDistance]_vars

(***************************************************************************)
(* SpecPairs: the fingerprints of two coefficient matrices are made on one *)
(* platform and their distance is measured.  The matrices are the steps of *)
(* SpecHash without marks or with the last cell marked, and the falling    *)
(* steps, whose first `low` coefficients are 1 and the others 0.           *)
(***************************************************************************)
FallingMatrix(low) ==
    [i \in 0..(hashSize - 1) |->
        [j \in 0..(hashSize - 1) |->
            IF i * hashSize + j <= low THEN 1 ELSE 0]]

PairLows == 0..NumCoefficients

PairMatrices ==
    {StepMatrix(low, {}) : low \in PairLows}
        \cup {StepMatrix(low, {NumCoefficients}) : low \in PairLows}
        \cup {FallingMatrix(low) : low \in PairLows}

InitPairs ==
    /\ platform \in {"native", "web"}
    /\ dct \in PairMatrices
    /\ dct2 \in PairMatrices
    /\ pHash = <<>>
    /\ hashA = <<>>
    /\ hashB = <<>>
    /\ measured = <<>>
    /\ DedupeIdle
    /\ CounterIdle
    /\ GalleryIdle

\* the fingerprints of the two matrices are computed
GeneratePair ==
    /\ hashA = <<>>
    /\ hashB = <<>>
    /\ hashA' = generateHashFromDCT(platform, dct)
    /\ hashB' = generateHashFromDCT(platform, dct2)
    /\ UNCHANGED <<platform, counterVars, dct, pHash, dct2, measured, dedupeVars, galleryVars>>

\* calculateHammingDistance of the two fingerprints settles
MeasurePair ==
    /\ hashA # <<>>
    /\ hashB # <<>>
    /\ measured = <<>>
    /\ measured' = calculateHammingDistance(platform, hashA, hashB)
    /\ UNCHANGED <<platform, counterVars, dct, pHash, dct2, hashA, hashB, dedupeVars, galleryVars>>

NextPairs ==
    \/ GeneratePair
    \/ MeasurePair

SpecPairs == InitPairs /\ [][NextPairs]_vars

(***************************************************************************)
(* The photos.  A photo is known by its id: uri and creationTime are read  *)
(* from the table of photos, and the arrays of the program hold photos by  *)
(* id.  The photo objects a run makes ({...photo, pHash: hash}) are the    *)
(* ids of its set `hashed`: calculatePHash returns the fingerprint of the  *)
(* image, so the pHash of such an object is ImageHash of its uri, and the  *)
(* pHash of any other photo is undefined (NoHash).                         *)
(***************************************************************************)
NoHash == <<>>

HexString(prefix) == [n \in 1..16 |-> IF n <= Len(prefix) THEN prefix[n] ELSE "0"]

\* Date.now() when the mock photos are made
NowMs == 3 * DayMs

\* loadMockPhotos: the five photos of the web build
mockPhotos ==
    << [id |-> 1, uri |-> "pexels-1851415", creationTime |-> NowMs - 86400000],
       [id |-> 2, uri |-> "pexels-1851415", creationTime |-> NowMs - 86400000 + 600000],
       [id |-> 3, uri |-> "pexels-1591447", creationTime |-> NowMs - 172800000],
       [id |-> 4, uri |-> "pexels-1591447", creationTime |-> NowMs - 172800000 + 300000],
       [id |-> 5, uri |-> "pexels-709552", creationTime |-> NowMs - 259200000] >>

Asset(id, uri, minutes) == [id |-> id, uri |-> uri, creationTime |-> minutes * MinuteMs]

\* the device libraries of the android and ios runs: three photos, the third
\* 40 minutes after the first with a fingerprint far from or near to the
\* others, and six photos that make two batches, the oldest within 15
\* minutes of two others; and a library without photos and one of one photo
Libraries == {"threeFar", "threeNear", "twoBatches", "noPhotos", "onePhoto"}

DeviceLibrary(lib) ==
    CASE lib = "threeFar" ->
            <<Asset(11, "P1", 0), Asset(12, "P2", 5), Asset(13, "P3far", 40)>>
      [] lib = "threeNear" ->
            <<Asset(11, "P1", 0), Asset(12, "P2", 5), Asset(14, "P3near", 40)>>
      [] lib = "twoBatches" ->
            <<Asset(21, "T1", 0), Asset(22, "T2", 5), Asset(23, "T3", 10),
              Asset(24, "T4", 200), Asset(25, "T5", 300), Asset(26, "T6", 400)>>
      [] lib = "noPhotos" -> <<>>
      [] lib = "onePhoto" -> <<Asset(41, "S1", 0)>>

\* the library of SpecMismatch: three photos within 15 minutes
DrawnLibrary == <<Asset(31, "M1", 0), Asset(32, "M2", 5), Asset(33, "M3", 10)>>

\* the fingerprint calculatePHash returns for an image when it succeeds; the
\* string the native module resolves with is returned as it is, and for the
\* images M1 and M2 it is the one drawn in hashA and hashB
ImageHash(uri) ==
    CASE uri = "M1" -> hashA
      [] uri = "M2" -> hashB
      [] uri = "M3" -> HexString(<<>>)
      [] uri = "S1" -> HexString(<<>>)
      [] uri = "P1" -> HexString(<<>>)
      [] uri = "P2" -> HexString(<<"7">>)
      [] uri = "P3far" -> HexString(<<"F", "F", "F", "F", "F", "F">>)
      [] uri = "P3near" -> HexString(<<"1">>)
      [] uri = "T1" -> HexString(<<"0", "1">>)
      [] uri = "T2" -> HexString(<<"0", "2">>)
      [] uri = "T3" -> HexString(<<"0", "0", "F">>)
      [] uri = "T4" -> HexString(<<"0", "0", "F", "F">>)
      [] uri = "T5" -> HexString(<<"0", "0", "0", "0", "A">>)
      [] uri = "T6" -> HexString(<<"0", "0", "0", "0", "0", "5">>)
      [] uri = "pexels-1851415" -> HexString(<<"A", "5">>)
      [] uri = "pexels-1591447" -> HexString(<<"0", "0", "C", "3">>)
      [] uri = "pexels-709552" -> HexString(<<"0", "0", "0", "0", "9", "6">>)

PhotoTable ==
    Range(mockPhotos) \cup Range(DrawnLibrary)
        \cup UNION {Range(DeviceLibrary(lib)) : lib \in Libraries}

PhotoOf(id) == CHOOSE p \in PhotoTable : p.id = id

CreationTimeOf(id) == PhotoOf(id).creationTime

PhotoIds(photos) == [k \in 1..Len(photos) |-> photos[k].id]

SortNewestFirst_Unsorted(photos) == photos

\* [...photos].sort((a, b) => b.creationTime - a.creationTime), a stable sort
RECURSIVE InsertNewestFirst(_, _)
InsertNewestFirst(sorted, p) ==
    IF sorted = <<>> THEN <<p>>
    ELSE IF CreationTimeOf(p) > CreationTimeOf(Head(sorted)) THEN <<p>> \o sorted
    ELSE <<Head(sorted)>> \o InsertNewestFirst(Tail(sorted), p)

RECURSIVE SortNewestFirstLoop(_, _, _)
SortNewestFirstLoop(photos, k, sorted) ==
    IF k > Len(photos) THEN sorted
    ELSE SortNewestFirstLoop(photos, k + 1, InsertNewestFirst(sorted, photos[k]))

SortNewestFirst(photos) == SortNewestFirstLoop(photos, 1, <<>>)

SortOldestFirst_Unsorted(photos) == photos

\* matchingPhotos.sort((a, b) => a.creationTime - b.creationTime), a stable sort
RECURSIVE InsertOldestFirst(_, _)
InsertOldestFirst(sorted, p) ==
    IF sorted = <<>> THEN <<p>>
    ELSE IF CreationTimeOf(p) < CreationTimeOf(Head(sorted)) THEN <<p>> \o sorted
    ELSE <<Head(sorted)>> \o InsertOldestFirst(Tail(sorted), p)

RECURSIVE SortOldestFirstLoop(_, _, _)
SortOldestFirstLoop(photos, k, sorted) ==
    IF k > Len(photos) THEN sorted
    ELSE SortOldestFirstLoop(photos, k + 1, InsertOldestFirst(sorted, photos[k]))

SortOldestFirst(photos) == SortOldestFirstLoop(photos, 1, <<>>)

(***************************************************************************)
(* The run (GalleryTab, findMatchingGroupsWithRealTimeResults and          *)
(* findMatchesInBatch).  The code between two awaits runs without          *)
(* interruption; a run is at one of its awaits or done:                    *)
(*   "pauseWait"  the 100 ms timer of the pause loop                       *)
(*   "hashing"    Promise.all over the calculatePHash calls of a batch     *)
(*   "comparing"  one calculateHammingDistance call                        *)
(* A context c holds the run together with the component state it writes.  *)
(* hashCalls, comparisons, publications and waited record what the run has *)
(* done: the photos it has called calculatePHash for, the number of        *)
(* calculateHammingDistance calls, the number of setMatchResults calls     *)
(* after the reset, and whether it has waited in the pause loop.           *)
(***************************************************************************)
batchSize == 5

NewRun(number, photos) ==
    [number |-> number, pc |-> "start", outcome |-> "running",
     photos |-> photos, sortedPhotos |-> SortNewestFirst(photos), i |-> 0,
     photosWithHashes |-> <<>>, rawMatches |-> <<>>,
     batch |-> <<>>, newBatch |-> <<>>, seed |-> 0, other |-> 0,
     matchingPhotos |-> <<>>, totalDistance |-> 0, validComparisons |-> 0,
     hashed |-> {}, deduplicatedMatches |-> <<>>,
     hashCalls |-> <<>>, comparisons |-> 0, publications |-> 0, waited |-> FALSE]

pHashOf_Always(run, id) == ImageHash(PhotoOf(id).uri)

\* photo.pHash of a photo object of the run
pHashOf(run, id) == IF id \in run.hashed THEN ImageHash(PhotoOf(id).uri) ELSE NoHash

Context(run) ==
    [run |-> run, matchResults |-> matchResults, matchGroups |-> matchGroups,
     processedCount |-> processedCount, processingMatches |-> processingMatches]

\* averageTime of a group: the sum of the creation times over the number of photos
RECURSIVE SumTimes(_)
SumTimes(ids) == IF ids = <<>> THEN 0 ELSE CreationTimeOf(Head(ids)) + SumTimes(Tail(ids))

RECURSIVE InsertGroup(_, _)
InsertGroup(sorted, g) ==
    IF sorted = <<>> THEN <<g>>
    ELSE IF RatGT(g.averageTime, Head(sorted).averageTime) THEN <<g>> \o sorted
    ELSE <<Head(sorted)>> \o InsertGroup(Tail(sorted), g)

RECURSIVE SortGroupsLoop(_, _, _)
SortGroupsLoop(groups, k, sorted) ==
    IF k > Len(groups) THEN sorted
    ELSE SortGroupsLoop(groups, k + 1, InsertGroup(sorted, groups[k]))

createMatchGroupsFromResults(matches) ==
    LET approvedMatches == SelectSeq(matches, LAMBDA m : m.status = "approved")
        groups == [k \in 1..Len(approvedMatches) |->
                      LET match == approvedMatches[k]
                      IN  [id |-> match.id, photos |-> match.photos,
                           timeWindow |-> match.timeWindow,
                           averageTime |-> Rat(SumTimes(match.photos), Len(match.photos))]]
    IN  SortGroupsLoop(groups, 1, <<>>)

\* after the batch loop: the final deduplication unless cancelled, and the
\* finally block
FinishRun(c, cancelled) ==
    IF ~cancelled
    THEN LET deduplicatedMatches == processMatchesWithDeduplication(c.run.rawMatches)
         IN  [c EXCEPT !.run.pc = "done",
                       !.run.outcome = "completed",
                       !.run.deduplicatedMatches = deduplicatedMatches,
                       !.run.publications = @ + 1,
                       !.matchResults = deduplicatedMatches,
                       !.matchGroups = createMatchGroupsFromResults(deduplicatedMatches),
                       !.processingMatches = FALSE]
    ELSE [c EXCEPT !.run.pc = "done",
                   !.run.outcome = "cancelled",
                   !.processingMatches = FALSE]

\* sortedPhotos.slice(i, i + batchSize) and the calculatePHash call for each
\* photo of the batch, up to the await of Promise.all
StartBatch(c) ==
    LET r == c.run
        batch == SubSeq(r.sortedPhotos, r.i + 1, Min2(r.i + batchSize, Len(r.sortedPhotos)))
    IN  [c EXCEPT !.run.pc = "hashing",
                  !.run.batch = batch,
                  !.run.hashCalls = @ \o batch]

pauseLoopCondition_IgnoresPause(paused, cancelled) == FALSE

pauseLoopCondition_Stuck(paused, cancelled) == TRUE

\* while (processingPausedRef.current && !processingCancelledRef.current)
pauseLoopCondition(paused, cancelled) == paused /\ ~cancelled

\* the head of the batch loop: its condition, the cancel check and the first
\* test of the pause loop
BatchLoop(c, cancelled, paused) ==
    IF c.run.i >= Len(c.run.sortedPhotos) THEN FinishRun(c, cancelled)
    ELSE IF cancelled THEN FinishRun(c, cancelled)
    ELSE IF pauseLoopCondition(paused, cancelled)
         THEN [c EXCEPT !.run.pc = "pauseWait", !.run.waited = TRUE]
         ELSE StartBatch(c)

timeWindowOf_Wide(newPhoto) ==
    [start |-> CreationTimeOf(newPhoto) - 45 * 60 * 1000,
     end |-> CreationTimeOf(newPhoto) + 45 * 60 * 1000]

timeWindowOf(newPhoto) ==
    [start |-> CreationTimeOf(newPhoto) - 15 * 60 * 1000,
     end |-> CreationTimeOf(newPhoto) + 15 * 60 * 1000]

confidenceOf_WholeMean(averageDistance) ==
    Rat(Max2(0, 100 - 3 * (averageDistance.n \div averageDistance.d)), 1)

confidenceOf_TimesTwo(averageDistance) ==
    Rat(Max2(0, 100 * averageDistance.d - 2 * averageDistance.n), averageDistance.d)

\* Math.max(0, 100 - (averageDistance * 3))
confidenceOf(averageDistance) ==
    Rat(Max2(0, 100 * averageDistance.d - 3 * averageDistance.n), averageDistance.d)

\* the candidate of a seed photo with at least one similar photo in its
\* window, pushed to rawMatches, and the real-time update of matchResults.
\* The time stamp in the id of a candidate is kept as the number of the run.
EmitCandidate(c) ==
    LET r == c.run
        newPhoto == r.newBatch[r.seed]
    IN  IF Len(r.matchingPhotos) > 1
        THEN LET averageDistance ==
                     IF r.validComparisons > 0
                     THEN Rat(r.totalDistance, r.validComparisons)
                     ELSE Rat(0, 1)
                 matchResult ==
                     [id |-> <<"match", newPhoto, r.number>>,
                      photos |-> SortOldestFirst(r.matchingPhotos),
                      confidence |-> confidenceOf(averageDistance),
                      timeWindow |-> timeWindowOf(newPhoto),
                      status |-> "pending",
                      hammingDistance |-> averageDistance]
                 rawMatches == Append(r.rawMatches, matchResult)
             IN  [c EXCEPT !.run.rawMatches = rawMatches,
                           !.run.publications = @ + 1,
                           !.matchResults = processMatchesWithDeduplication(rawMatches)]
        ELSE c

RECURSIVE SeedLoop(_, _, _)
RECURSIVE OtherLoop(_, _, _)

\* for (const newPhoto of newBatch): from the seed at index c.run.seed on
SeedLoop(c, cancelled, paused) ==
    LET r == c.run
    IN  IF r.seed > Len(r.newBatch)
        THEN BatchLoop([c EXCEPT !.run.i = @ + batchSize], cancelled, paused)
        ELSE LET newPhoto == r.newBatch[r.seed]
             IN  IF pHashOf(r, newPhoto) = NoHash \/ cancelled
                 THEN SeedLoop([c EXCEPT !.run.seed = @ + 1], cancelled, paused)
                 ELSE OtherLoop([c EXCEPT !.run.other = 1,
                                          !.run.matchingPhotos = <<newPhoto>>,
                                          !.run.totalDistance = 0,
                                          !.run.validComparisons = 0],
                                cancelled, paused)

\* for (const otherPhoto of allProcessedPhotos): from index c.run.other on, up
\* to the next await of calculateHammingDistance
OtherLoop(c, cancelled, paused) ==
    LET r == c.run
        newPhoto == r.newBatch[r.seed]
        timeWindow == timeWindowOf(newPhoto)
    IN  IF r.other > Len(r.photosWithHashes)
        THEN SeedLoop([EmitCandidate(c) EXCEPT !.run.seed = @ + 1], cancelled, paused)
        ELSE LET otherPhoto == r.photosWithHashes[r.other]
             IN  IF otherPhoto = newPhoto \/ pHashOf(r, otherPhoto) = NoHash
                 THEN OtherLoop([c EXCEPT !.run.other = @ + 1], cancelled, paused)
                 ELSE IF /\ CreationTimeOf(otherPhoto) >= timeWindow.start
                         /\ CreationTimeOf(otherPhoto) <= timeWindow.end
                      THEN [c EXCEPT !.run.pc = "comparing", !.run.comparisons = @ + 1]
                      ELSE OtherLoop([c EXCEPT !.run.other = @ + 1], cancelled, paused)

\* the result of the awaited calculateHammingDistance call and what follows it
AfterComparison(c, os, cancelled, paused) ==
    LET r == c.run
        newPhoto == r.newBatch[r.seed]
        otherPhoto == r.photosWithHashes[r.other]
        result == calculateHammingDistance(os, pHashOf(r, newPhoto), pHashOf(r, otherPhoto))
        d == IF result.ok /\ result.distance <= 20
             THEN [c EXCEPT !.run.matchingPhotos = Append(@, otherPhoto),
                            !.run.totalDistance = @ + result.distance,
                            !.run.validComparisons = @ + 1]
             ELSE c
    IN  OtherLoop([d EXCEPT !.run.other = @ + 1], cancelled, paused)

\* the catch and the finally block of the run: the failure alert is shown
\* and the processing flag cleared
FailRun(c) ==
    [c EXCEPT !.run.pc = "done",
              !.run.outcome = "failed",
              !.processingMatches = FALSE]

RejectedPromises_Uncaught(failed) == failed

\* batchPromises: a calculatePHash call that throws is caught inside the
\* promise of its photo, which resolves to the photo as it was; no promise
\* of the batch is rejected
RejectedPromises(failed) == {}

\* the results of Promise.all for the batch: each photo with its fingerprint,
\* or as it was when calculatePHash failed; then findMatchesInBatch
AfterHashing(c, failed, cancelled, paused) ==
    LET r == c.run
        batchResults == r.batch
        photosWithHashes == r.photosWithHashes \o batchResults
    IN  IF RejectedPromises(failed) # {} THEN FailRun(c)
        ELSE SeedLoop([c EXCEPT !.run.hashed = @ \cup (Range(r.batch) \ failed),
                                !.run.photosWithHashes = photosWithHashes,
                                !.run.newBatch = batchResults,
                                !.run.batch = <<>>,
                                !.run.seed = 1,
                                !.processedCount = Len(photosWithHashes)],
                      cancelled, paused)

\* the pause loop after the 100 ms timer: its condition again, then the batch
AfterPauseTimer(c, cancelled, paused) ==
    IF pauseLoopCondition(paused, cancelled) THEN c ELSE StartBatch(c)

\* findMatchingGroupsWithRealTimeResults(photos) up to its first await
BeginRun(number, photos) ==
    BatchLoop([run |-> NewRun(number, photos),
               matchResults |-> <<>>,
               matchGroups |-> matchGroups,
               processedCount |-> 0,
               processingMatches |-> TRUE],
              FALSE, FALSE)

(***************************************************************************)
(* Spec: the gallery screen.  The device holds a library of photos; the    *)
(* app loads it and runs the matching over it, the user pauses, resumes,   *)
(* reviews candidates and deletes photos, and on android and ios a         *)
(* deletion reloads the library and starts another run.                    *)
(***************************************************************************)
MaxRuns == 2

MaxDeletions == 1

MaxHashFailures == 1

MaxReviewed == 1

InitGallery ==
    /\ platform \in {"native", "web"}
    /\ device \in IF platform = "web" THEN {PhotoIds(mockPhotos)}
                  ELSE {PhotoIds(DeviceLibrary(lib)) : lib \in Libraries}
    /\ hasPermission = "undetermined"
    /\ allPhotos = <<>>
    /\ matchResults = <<>>
    /\ matchGroups = <<>>
    /\ processedCount = 0
    /\ processingMatches = FALSE
    /\ processingPaused = FALSE
    /\ processingCancelledRef = FALSE
    /\ processingPausedRef = FALSE
    /\ runs = <<>>
    /\ pendingLoads = 0
    /\ deletions = 0
    /\ DedupeIdle
    /\ CounterIdle
    /\ dct = <<>>
    /\ pHash = <<>>
    /\ DistanceIdle

\* the run r takes the step that leads from context c to context d
RunStep(r, d) ==
    /\ runs' = [runs EXCEPT ![r] = d.run]
    /\ matchResults' = d.matchResults
    /\ matchGroups' = d.matchGroups
    /\ processedCount' = d.processedCount
    /\ processingMatches' = d.processingMatches

\* findMatchingGroupsWithRealTimeResults(photos) is called: the resets and
\* the run up to its first await
StartRun(photos) ==
    LET d == BeginRun(Len(runs) + 1, photos)
    IN  /\ Len(runs) < MaxRuns
        /\ runs' = Append(runs, d.run)
        /\ matchResults' = d.matchResults
        /\ matchGroups' = d.matchGroups
        /\ processedCount' = d.processedCount
        /\ processingMatches' = d.processingMatches
        /\ processingCancelledRef' = FALSE
        /\ processingPausedRef' = FALSE

\* initializeApp and requestPermission: the web build loads the mock photos
\* and starts the run, android and ios ask for the permission and start
\* loadAllPhotos when it is granted
InitializeApp ==
    /\ hasPermission = "undetermined"
    /\ \/ /\ platform = "web"
          /\ hasPermission' = "granted"
          /\ allPhotos' = PhotoIds(mockPhotos)
          /\ StartRun(PhotoIds(mockPhotos))
          /\ UNCHANGED pendingLoads
       \/ /\ platform # "web"
          /\ \E status \in {"granted", "denied"} :
                /\ hasPermission' = status
                /\ pendingLoads' = IF status = "granted" THEN 1 ELSE 0
          /\ UNCHANGED <<allPhotos, runs, matchResults, matchGroups, processedCount,
                         processingMatches, processingCancelledRef, processingPausedRef>>
    /\ UNCHANGED <<platform, counterVars, device, processingPaused, deletions, dedupeVars, hashVars>>

\* loadAllPhotos has read the library of the device: it starts the run
LoadDone ==
    /\ pendingLoads > 0
    /\ pendingLoads' = pendingLoads - 1
    /\ allPhotos' = device
    /\ StartRun(device)
    /\ UNCHANGED <<platform, counterVars, device, hasPermission, processingPaused, deletions,
                   dedupeVars, hashVars>>

\* the Scan Again button of the screen without matches
ScanAgain ==
    /\ hasPermission = "granted"
    /\ pendingLoads = 0
    /\ runs # <<>>
    /\ ~processingMatches
    /\ matchResults = <<>>
    /\ matchGroups = <<>>
    /\ StartRun(allPhotos)
    /\ UNCHANGED <<platform, counterVars, device, hasPermission, allPhotos, processingPaused,
                   pendingLoads, deletions, dedupeVars, hashVars>>

\* the number of calculatePHash calls that have failed, over all runs
RECURSIVE HashFailures(_)
HashFailures(r) ==
    IF r = 0 THEN 0
    ELSE Cardinality(Range(runs[r].photosWithHashes) \ runs[r].hashed) + HashFailures(r - 1)

\* Promise.all of a batch resolves, some of its fingerprints having failed
HashDone ==
    \E r \in DOMAIN runs :
        /\ runs[r].pc = "hashing"
        /\ \E failed \in SUBSET Range(runs[r].batch) :
              /\ Cardinality(failed) + HashFailures(Len(runs)) <= MaxHashFailures
              /\ RunStep(r, AfterHashing(Context(runs[r]), failed,
                                         processingCancelledRef, processingPausedRef))
        /\ UNCHANGED <<platform, counterVars, device, hasPermission, allPhotos, processingPaused,
                       processingCancelledRef, processingPausedRef, pendingLoads,
                       deletions, dedupeVars, hashVars>>

\* a calculateHammingDistance call resolves
CompareDone ==
    \E r \in DOMAIN runs :
        /\ runs[r].pc = "comparing"
        /\ RunStep(r, AfterComparison(Context(runs[r]), platform,
                                      processingCancelledRef, processingPausedRef))
        /\ UNCHANGED <<platform, counterVars, device, hasPermission, allPhotos, processingPaused,
                       processingCancelledRef, processingPausedRef, pendingLoads,
                       deletions, dedupeVars, hashVars>>

\* the 100 ms timer of the pause loop fires
PauseTick ==
    \E r \in DOMAIN runs :
        /\ runs[r].pc = "pauseWait"
        /\ RunStep(r, AfterPauseTimer(Context(runs[r]),
                                      processingCancelledRef, processingPausedRef))
        /\ UNCHANGED <<platform, counterVars, device, hasPermission, allPhotos, processingPaused,
                       processingCancelledRef, processingPausedRef, pendingLoads,
                       deletions, dedupeVars, hashVars>>

\* the Pause button, shown while processingMatches and not processingPaused
handlePauseProcessing ==
    /\ processingMatches
    /\ ~processingPaused
    /\ processingPausedRef' = TRUE
    /\ processingPaused' = TRUE
    /\ UNCHANGED <<platform, counterVars, device, hasPermission, allPhotos, matchResults, matchGroups,
                   processedCount, processingMatches, processingCancelledRef, runs,
                   pendingLoads, deletions, dedupeVars, hashVars>>

\* the Resume button, shown while processingMatches and processingPaused
handleResumeProcessing ==
    /\ processingMatches
    /\ processingPaused
    /\ processingPausedRef' = FALSE
    /\ processingPaused' = FALSE
    /\ UNCHANGED <<platform, counterVars, device, hasPermission, allPhotos, matchResults, matchGroups,
                   processedCount, processingMatches, processingCancelledRef, runs,
                   pendingLoads, deletions, dedupeVars, hashVars>>

\* the cancel signal of the pipeline's controls: the cancel flag is set
\* during a run
Cancel ==
    /\ processingMatches
    /\ ~processingCancelledRef
    /\ processingCancelledRef' = TRUE
    /\ UNCHANGED <<platform, counterVars, device, hasPermission, allPhotos, matchResults, matchGroups,
                   processedCount, processingMatches, processingPaused,
                   processingPausedRef, runs, pendingLoads, deletions, dedupeVars,
                   hashVars>>

\* the number of candidates shown that carry a verdict
Reviewed == Cardinality({k \in 1..Len(matchResults) : matchResults[k].status # "pending"})

SetStatus(matchId, status) ==
    [k \in 1..Len(matchResults) |->
        IF matchResults[k].id = matchId
        THEN [matchResults[k] EXCEPT !.status = status]
        ELSE matchResults[k]]

handleApproveMatch ==
    /\ \E k \in 1..Len(matchResults) :
          /\ matchResults[k].status # "pending" \/ Reviewed < MaxReviewed
          /\ matchResults[k].status # "approved"
          /\ matchResults' = SetStatus(matchResults[k].id, "approved")
    /\ UNCHANGED <<platform, counterVars, device, hasPermission, allPhotos, matchGroups,
                   processedCount, processingMatches, processingPaused,
                   processingCancelledRef, processingPausedRef, runs, pendingLoads,
                   deletions, dedupeVars, hashVars>>

handleRejectMatch ==
    /\ \E k \in 1..Len(matchResults) :
          /\ matchResults[k].status # "pending" \/ Reviewed < MaxReviewed
          /\ matchResults[k].status # "rejected"
          /\ matchResults' = SetStatus(matchResults[k].id, "rejected")
    /\ UNCHANGED <<platform, counterVars, device, hasPermission, allPhotos, matchGroups,
                   processedCount, processingMatches, processingPaused,
                   processingCancelledRef, processingPausedRef, runs, pendingLoads,
                   deletions, dedupeVars, hashVars>>

\* photos.filter(p => p.id !== photoId) of every entry, entries left with
\* fewer than two photos dropped
WithoutPhoto(entries, photoId) ==
    SelectSeq([k \in 1..Len(entries) |->
                  [entries[k] EXCEPT !.photos = SelectSeq(@, LAMBDA id : id # photoId)]],
              LAMBDA e : Len(e.photos) > 1)

\* a photo is deleted from the device and handlePhotoDeleted is called
handlePhotoDeleted ==
    /\ hasPermission = "granted"
    /\ deletions < MaxDeletions
    /\ platform # "web" => Len(runs) + pendingLoads < MaxRuns
    /\ \E k \in 1..Len(allPhotos) :
          LET photoId == allPhotos[k]
          IN  /\ device' = SelectSeq(device, LAMBDA p : p # photoId)
              /\ allPhotos' = SelectSeq(allPhotos, LAMBDA p : p # photoId)
              /\ matchGroups' = WithoutPhoto(matchGroups, photoId)
              /\ matchResults' = WithoutPhoto(matchResults, photoId)
    /\ pendingLoads' = IF platform # "web" THEN pendingLoads + 1 ELSE pendingLoads
    /\ deletions' = deletions + 1
    /\ UNCHANGED <<platform, counterVars, hasPermission, processedCount, processingMatches,
                   processingPaused, processingCancelledRef, processingPausedRef, runs,
                   dedupeVars, hashVars>>

Next ==
    \/ InitializeApp
    \/ LoadDone
    \/ ScanAgain
    \/ HashDone
    \/ CompareDone
    \/ PauseTick
    \/ handlePauseProcessing
    \/ handleResumeProcessing
    \/ Cancel
    \/ handleApproveMatch
    \/ handleRejectMatch
    \/ handlePhotoDeleted

Spec == InitGallery /\ [][Next]_vars

(***************************************************************************)
(* SpecMismatch: one run on android or ios over the three photos of        *)
(* DrawnLibrary.  pHash.ts hands on the string the native module resolves  *)
(* with and checks neither its length nor its characters; the fingerprints *)
(* of M1 and M2 are drawn from strings of 15 and 16 hex digits, so that    *)
(* calculateHammingDistance is called with fingerprints of unequal length, *)
(* and at distances 0, 3, 9, 12, 21 and 24 from each other and from M3.    *)
(***************************************************************************)
Truncate(h) == SubSeq(h, 1, Len(h) - 1)

MismatchHashes ==
    LET full == {HexString(<<>>), HexString(<<"7">>), HexString(<<"F", "F", "F">>),
                 HexString(<<"F", "F", "F", "F", "F", "F">>)}
    IN  full \cup {Truncate(h) : h \in full}

InitMismatch ==
    /\ platform = "native"
    /\ hashA \in MismatchHashes
    /\ hashB \in MismatchHashes
    /\ measured = <<>>
    /\ dct = <<>>
    /\ dct2 = <<>>
    /\ pHash = <<>>
    /\ device = PhotoIds(DrawnLibrary)
    /\ hasPermission = "undetermined"
    /\ allPhotos = <<>>
    /\ matchResults = <<>>
    /\ matchGroups = <<>>
    /\ processedCount = 0
    /\ processingMatches = FALSE
    /\ processingPaused = FALSE
    /\ processingCancelledRef = FALSE
    /\ processingPausedRef = FALSE
    /\ runs = <<>>
    /\ pendingLoads = 0
    /\ deletions = 0
    /\ DedupeIdle
    /\ CounterIdle

NextMismatch ==
    \/ InitializeApp
    \/ LoadDone
    \/ HashDone
    \/ CompareDone

SpecMismatch == InitMismatch /\ [][NextMismatch]_vars

(***************************************************************************)
(* SpecLive: one run on android or ios over each of the libraries, with    *)
(* pause, resume and cancel.  Every awaited call settles: no load of the   *)
(* library, no Promise.all over calculatePHash calls and no                *)
(* calculateHammingDistance call is pending for ever (CallsSettle).  The   *)
(* 100 ms timer of the pause loop fires again and again and finds the flag *)
(* clear if it is clear again and again (strong fairness), and the user    *)
(* resumes a paused run unless it is cancelled (weak fairness of Resume).  *)
(***************************************************************************)
InitLive ==
    /\ InitGallery
    /\ platform = "native"

NextLive ==
    \/ InitializeApp
    \/ LoadDone
    \/ HashDone
    \/ CompareDone
    \/ PauseTick
    \/ handlePauseProcessing
    \/ handleResumeProcessing
    \/ Cancel

CallsSettle ==
    /\ []<>(pendingLoads = 0)
    /\ []<>(\A r \in DOMAIN runs : runs[r].pc # "hashing")
    /\ []<>(\A r \in DOMAIN runs : runs[r].pc # "comparing")

SpecLive ==
    /\ InitLive
    /\ [][NextLive]_vars
    /\ CallsSettle
    /\ SF_vars(PauseTick)
    /\ WF_vars(handleResumeProcessing)

(***************************************************************************)
(* Properties of the deduplicator.  They speak of photo-id sets and of     *)
(* positions in a list, not of the deduplicator's own helpers.             *)
(***************************************************************************)
StrictSubset(A, B) == A \subseteq B /\ A # B

\* the elements of s at the positions in K, in order
RECURSIVE PickIndices(_, _, _)
PickIndices(s, i, K) ==
    IF i > Len(s) THEN <<>>
    ELSE (IF i \in K THEN <<s[i]>> ELSE <<>>) \o PickIndices(s, i + 1, K)

SubsetFree(out) ==
    \A i, j \in 1..Len(out) :
        i # j => ~StrictSubset(PhotoIdSet(out[i]), PhotoIdSet(out[j]))

DroppedAreCovered(inp, out) ==
    /\ Range(out) \subseteq Range(inp)
    /\ \A m \in Range(inp) \ Range(out) :
           \E k \in Range(out) : StrictSubset(PhotoIdSet(m), PhotoIdSet(k))

IdSets(out) == {PhotoIdSet(m) : m \in Range(out)}

\* C1: subset removal, on the confidence-sorted list and on the list in its
\* input order alike, retains no candidate whose photo-id set is a strict
\* subset of another retained one's, drops only candidates that are a
\* strict subset of a retained one, and retains the same photo-id sets in
\* either order; deduplicateMatches retains no strict subset either.
C1_SubsetRemoval ==
    stages.done =>
        /\ SubsetFree(stages.withoutSubsets)
        /\ DroppedAreCovered(stages.sortedMatches, stages.withoutSubsets)
        /\ SubsetFree(stages.subsetsUnsorted)
        /\ DroppedAreCovered(stages.validMatches, stages.subsetsUnsorted)
        /\ IdSets(stages.withoutSubsets) = IdSets(stages.subsetsUnsorted)
        /\ SubsetFree(stages.deduplicated)

\* a subset that came first (higher confidence) was accepted and then evicted
C1_Witness ==
    /\ stages.done
    /\ Len(stages.sortedMatches) = 3
    /\ \E m \in Range(stages.sortedMatches) \ Range(stages.withoutSubsets) :
           \E k \in Range(stages.withoutSubsets) :
               /\ StrictSubset(PhotoIdSet(m), PhotoIdSet(k))
               /\ RatGT(m.confidence, k.confidence)

FirstOfItsSet(inp) ==
    {i \in 1..Len(inp) :
         \A j \in 1..(i - 1) : PhotoIdSet(inp[j]) # PhotoIdSet(inp[i])}

\* C7: reciprocal removal keeps, of the candidates with one photo-id set,
\* exactly the first in Stage-B output order, and removes nothing else.
C7_ReciprocalRemoval ==
    stages.done =>
        stages.withoutReciprocals =
            PickIndices(stages.withoutSubsets, 1, FirstOfItsSet(stages.withoutSubsets))

\* two candidates list the same photos in different orders, a third differs
C7_Witness ==
    /\ stages.done
    /\ Len(stages.withoutSubsets) = 3
    /\ Len(stages.withoutReciprocals) = 2
    /\ \E i, j \in 1..3 :
           /\ i < j
           /\ PhotoIdSet(stages.withoutSubsets[i]) = PhotoIdSet(stages.withoutSubsets[j])
           /\ stages.withoutSubsets[i].photos # stages.withoutSubsets[j].photos

DroppedByStageA(m) ==
    \/ Len(m.photos) = 2 /\ m.confidence.n < 70 * m.confidence.d
    \/ m.hammingDistance.n > 25 * m.hammingDistance.d
    \/ m.timeWindow.end - m.timeWindow.start > 86400000

\* C8: the validity filter drops exactly the candidates with 2 photos and
\* confidence < 70, or mean distance > 25, or a window of more than 24
\* hours, and passes the others unchanged in their order.
C8_ValidityFilter ==
    stages.done =>
        stages.validMatches =
            PickIndices(rawIn, 1, {i \in 1..Len(rawIn) : ~DroppedByStageA(rawIn[i])})

\* a pair at confidence 65 is dropped between two kept candidates, one of
\* them a pair at confidence 75
C8_Witness ==
    /\ stages.done
    /\ Len(rawIn) = 3
    /\ Len(rawIn[2].photos) = 2 /\ rawIn[2].confidence = Rat(65, 1)
    /\ Len(rawIn[3].photos) = 2 /\ rawIn[3].confidence = Rat(75, 1)
    /\ stages.validMatches = <<rawIn[1], rawIn[3]>>

SharedIds(a, b) == Cardinality(PhotoIdSet(a) \cap PhotoIdSet(b))

JointIds(a, b) == Cardinality(PhotoIdSet(a) \cup PhotoIdSet(b))

WindowsIntersect(a, b) ==
    Max2(a.timeWindow.start, b.timeWindow.start) < Min2(a.timeWindow.end, b.timeWindow.end)

\* two candidates that share 3 of their 4 photo ids in disjoint time windows
ThreeOfFourApart ==
    /\ stages.done
    /\ Len(rawIn) = 2
    /\ Len(stages.validMatches) = 2
    /\ SharedIds(rawIn[1], rawIn[2]) = 3
    /\ JointIds(rawIn[1], rawIn[2]) = 4
    /\ ~WindowsIntersect(rawIn[1], rawIn[2])

\* C2 as claimed: both candidates are in the result of dedupe.
C2_BothSurviveDedupe ==
    ThreeOfFourApart => {rawIn[1], rawIn[2]} \subseteq Range(stages.result)

\* C2 as amended: temporal-overlap suppression keeps both candidates, and
\* the result of dedupe is the 4-photo candidate alone (the 3-photo one is
\* its strict subset).
C2_BothSurviveStageD ==
    ThreeOfFourApart =>
        /\ Range(stages.temporalOfSorted) = {rawIn[1], rawIn[2]}
        /\ Len(stages.result) = 1
        /\ Cardinality(PhotoIdSet(stages.result[1])) = 4

C2_Witness == ThreeOfFourApart /\ RatGT(rawIn[2].confidence, rawIn[1].confidence)

Overlapping(a, b) == 2 * SharedIds(a, b) > JointIds(a, b) /\ WindowsIntersect(a, b)

\* C3 as claimed: of two overlapping candidates that reach Stage D the
\* earlier one is kept and the later one is not.
C3_EarlierOfPairKept ==
    stages.done =>
        \A i, j \in 1..Len(stages.withoutReciprocals) :
            (i < j /\ Overlapping(stages.withoutReciprocals[i], stages.withoutReciprocals[j]))
                => /\ stages.withoutReciprocals[i] \in Range(stages.finalMatches)
                   /\ stages.withoutReciprocals[j] \notin Range(stages.finalMatches)

\* C3 as amended: of two overlapping candidates that reach Stage D at most
\* one is kept, the later one never together with the earlier one; a
\* candidate is dropped only if it overlaps an earlier candidate that is
\* kept; when only the two reach Stage D exactly the earlier one is kept;
\* the Stage-D output holds no two overlapping candidates.
C3_TemporalSuppression ==
    stages.done =>
        LET inC == stages.withoutReciprocals
            outD == stages.finalMatches
        IN  /\ outD = PickIndices(inC, 1, {i \in 1..Len(inC) : inC[i] \in Range(outD)})
            /\ \A i, j \in 1..Len(inC) :
                   (i < j /\ Overlapping(inC[i], inC[j]))
                       => ~(inC[i] \in Range(outD) /\ inC[j] \in Range(outD))
            /\ \A j \in 1..Len(inC) :
                   inC[j] \notin Range(outD)
                       => \E i \in 1..(j - 1) :
                              inC[i] \in Range(outD) /\ Overlapping(inC[i], inC[j])
            /\ (Len(inC) = 2 /\ Overlapping(inC[1], inC[2])) => outD = <<inC[1]>>
            /\ \A a, b \in Range(outD) : a # b => ~Overlapping(a, b)

\* three candidates overlap pairwise: the first is kept, the other two go
C3_Witness ==
    /\ stages.done
    /\ Len(stages.withoutReciprocals) = 3
    /\ \A i, j \in 1..3 :
           i < j => Overlapping(stages.withoutReciprocals[i], stages.withoutReciprocals[j])
    /\ stages.finalMatches = <<stages.withoutReciprocals[1]>>

\* C6: dedupe of the result of dedupe is that result.
C6_Idempotent == stages.done => stages.again = stages.result

(***************************************************************************)
(* Properties of the fingerprint.                                          *)
(***************************************************************************)
\* the 4 bits a hex character stands for, most significant first
BitsOfHexChar(c) ==
    LET v == CHOOSE x \in 0..15 : HexChars[x + 1] = c
    IN  <<(v \div 8) % 2, (v \div 4) % 2, (v \div 2) % 2, v % 2>>

RECURSIVE EncodedBits(_)
EncodedBits(hash) ==
    IF hash = <<>> THEN <<>> ELSE BitsOfHexChar(Head(hash)) \o EncodedBits(Tail(hash))

\* coefficient n is above the 32nd smallest coefficient
AboveMedian(cs, n) ==
    Cardinality({m \in 1..Len(cs) : cs[m] < cs[n]}) > Len(cs) \div 2

\* C5: the fingerprint of either platform path is 16 hex digits that spell
\* the 63 median bits in order followed by one 0 bit.
C5_HexPacking ==
    pHash # <<>> =>
        LET cs == Coefficients(dct)
        IN  /\ Len(pHash) = 16
            /\ EncodedBits(pHash) = [n \in 1..64 |-> IF n = 64 THEN 0
                                                     ELSE IF AboveMedian(cs, n) THEN 1 ELSE 0]

(***************************************************************************)
(* Properties of the run.                                                  *)
(***************************************************************************)
\* C4: in a step taken with the cancel flag set and leaving it set, no run
\* calls calculatePHash or calculateHammingDistance and no run publishes match
\* results; a run waiting in the pause loop is no exception.
C4_CancelStopsRun ==
    [][(processingCancelledRef /\ processingCancelledRef') =>
          \A r \in DOMAIN runs :
              /\ runs'[r].hashCalls = runs[r].hashCalls
              /\ runs'[r].comparisons = runs[r].comparisons
              /\ runs'[r].publications = runs[r].publications]_vars

ThreePhotoLibraries ==
    {Range(PhotoIds(DeviceLibrary("threeFar"))), Range(PhotoIds(DeviceLibrary("threeNear")))}

\* a run over P1, P2 and P3 that has completed with every fingerprint computed
EndToEndRun(r) ==
    /\ runs[r].outcome = "completed"
    /\ Range(runs[r].photos) \in ThreePhotoLibraries
    /\ runs[r].hashed = Range(runs[r].photos)

\* C9: the final deduplicated result of a completed run over P1 (t = 0), P2
\* (5 minutes later, at distance 3 from P1) and P3 (40 minutes later) is one
\* candidate, its photos are P1 and P2 and its confidence is 91; P3 is in no
\* candidate of the run, whether its fingerprint is near the others or not.
C9_EndToEnd ==
    \A r \in DOMAIN runs :
        EndToEndRun(r) =>
            /\ Len(runs[r].deduplicatedMatches) = 1
            /\ runs[r].deduplicatedMatches[1].photos = <<11, 12>>
            /\ RatEQ(runs[r].deduplicatedMatches[1].confidence, Rat(91, 1))
            /\ \A k \in 1..Len(runs[r].rawMatches) :
                   Range(runs[r].rawMatches[k].photos) = {11, 12}

C9_Witness ==
    \E r \in DOMAIN runs :
        /\ EndToEndRun(r)
        /\ 14 \in Range(runs[r].photos)
        /\ Len(runs[r].rawMatches) = 2

\* what a run has hashed is a run of whole batches from the start of its
\* sorted photos, each photo once, and all of them when it has completed
HashedInOrder(run) ==
    /\ Len(run.hashCalls) <= Len(run.sortedPhotos)
    /\ run.hashCalls = SubSeq(run.sortedPhotos, 1, Len(run.hashCalls))
    /\ Len(run.hashCalls) \in {run.i, Min2(run.i + batchSize, Len(run.sortedPhotos))}
    /\ Cardinality(Range(run.hashCalls)) = Len(run.hashCalls)
    /\ run.outcome = "completed" => run.hashCalls = run.sortedPhotos

\* the step of a state where the pause flag is set and the cancel flag is
\* not: no run starts a batch, and a run waiting in the pause loop does nothing
PausedStep ==
    (processingPausedRef /\ ~processingCancelledRef) =>
        \A r \in DOMAIN runs :
            /\ runs'[r].hashCalls = runs[r].hashCalls
            /\ runs[r].pc = "pauseWait" => runs'[r] = runs[r]

\* the step that sets the pause flag changes neither the runs nor the results
PauseKeepsResults ==
    (~processingPausedRef /\ processingPausedRef') =>
        /\ runs' = runs
        /\ matchResults' = matchResults
        /\ matchGroups' = matchGroups

FailedPhotos(run) == Range(run.photosWithHashes) \ run.hashed

\* the number of the batch of a photo in its run, from 0
BatchOf(run, p) ==
    ((CHOOSE k \in 1..Len(run.sortedPhotos) : run.sortedPhotos[k] = p) - 1) \div batchSize

\* q has a fingerprint when the batch of p completes, lies within 15 minutes
\* of p and at distance 20 or less
Neighbour(run, p, q) ==
    LET d == calculateHammingDistance(platform, pHashOf(run, p), pHashOf(run, q))
    IN  /\ q # p
        /\ q \in run.hashed
        /\ BatchOf(run, q) <= BatchOf(run, p)
        /\ CreationTimeOf(q) - CreationTimeOf(p) <= 15 * MinuteMs
        /\ CreationTimeOf(p) - CreationTimeOf(q) <= 15 * MinuteMs
        /\ d.ok
        /\ d.distance <= 20

Neighbours(run, p) == {q \in Range(run.sortedPhotos) : Neighbour(run, p, q)}

\* the raw candidates of the run seeded by p
SeededBy(run, p) == {k \in 1..Len(run.rawMatches) : run.rawMatches[k].id[2] = p}

\* C11: no run ends in the failure alert; a photo whose fingerprint failed is
\* in no raw candidate of its run; and in a completed run calculatePHash was
\* called for every photo and every photo with a fingerprint and a neighbour
\* has seeded a candidate.
C11_HashFailureAbsorbed ==
    \A r \in DOMAIN runs :
        LET run == runs[r]
        IN  /\ run.outcome # "failed"
            /\ \A k \in 1..Len(run.rawMatches) :
                   Range(run.rawMatches[k].photos) \cap FailedPhotos(run) = {}
            /\ run.outcome = "completed" =>
                  /\ Range(run.hashCalls) = Range(run.photos)
                  /\ run.hashed \cup FailedPhotos(run) = Range(run.photos)
                  /\ \A p \in run.hashed :
                         Neighbours(run, p) # {} => SeededBy(run, p) # {}

C11_Witness ==
    \E r \in DOMAIN runs :
        /\ runs[r].outcome = "completed"
        /\ Len(runs[r].sortedPhotos) > batchSize
        /\ \E p \in FailedPhotos(runs[r]) : BatchOf(runs[r], p) = 0
        /\ \E p \in runs[r].hashed : BatchOf(runs[r], p) = 1 /\ SeededBy(runs[r], p) # {}

\* the ordered pairs (seed, other photo) of a run that findMatchesInBatch
\* compares: both with a fingerprint, the other photo hashed no later than
\* the seed and within 15 minutes of it
ComparedPairs(run) ==
    {pq \in run.hashed \X run.hashed :
        /\ pq[1] # pq[2]
        /\ BatchOf(run, pq[2]) <= BatchOf(run, pq[1])
        /\ CreationTimeOf(pq[2]) - CreationTimeOf(pq[1]) <= 15 * MinuteMs
        /\ CreationTimeOf(pq[1]) - CreationTimeOf(pq[2]) <= 15 * MinuteMs}

\* C12: for two fingerprints of unequal length calculateHammingDistance
\* settles with an error on android/ios and on the web, and so do the native
\* function and the JavaScript code each; no raw candidate holds a photo
\* whose fingerprint differs in length from that of its seed; and a completed
\* run has made every comparison of every seed and each seed's candidate
\* holds all its neighbours, whichever of its comparisons have failed.
C12_LengthMismatch ==
    \A r \in DOMAIN runs :
        LET run == runs[r]
        IN  /\ \A p, q \in run.hashed :
                  Len(pHashOf(run, p)) # Len(pHashOf(run, q)) =>
                      /\ ~hammingDistance(pHashOf(run, p), pHashOf(run, q)).ok
                      /\ ~hammingDistanceJS(pHashOf(run, p), pHashOf(run, q)).ok
                      /\ \A os \in {"native", "web"} :
                             ~calculateHammingDistance(os, pHashOf(run, p), pHashOf(run, q)).ok
            /\ \A k \in 1..Len(run.rawMatches) :
                   \A q \in Range(run.rawMatches[k].photos) :
                       Len(pHashOf(run, q)) = Len(pHashOf(run, run.rawMatches[k].id[2]))
            /\ run.outcome = "completed" =>
                  /\ run.comparisons = Cardinality(ComparedPairs(run))
                  /\ \A p \in run.hashed : \A q \in Neighbours(run, p) :
                         \E k \in SeededBy(run, p) : q \in Range(run.rawMatches[k].photos)

\* the comparison of M3 with M2 has failed and the one with M1 that follows
\* it has put M1 into the candidate of M3
C12_Witness ==
    \E r \in DOMAIN runs :
        /\ runs[r].outcome = "completed"
        /\ runs[r].hashed = {31, 32, 33}
        /\ Len(hashB) # Len(ImageHash("M3"))
        /\ \E k \in SeededBy(runs[r], 33) : 31 \in Range(runs[r].rawMatches[k].photos)

\* C14: for two fingerprints of equal length the distance is a number and
\* it is the same with the arguments exchanged, on both platforms.
C14_Symmetric ==
    (measured # <<>> /\ Len(hashA) = Len(hashB)) =>
        /\ measured.ok
        /\ calculateHammingDistance(platform, hashB, hashA) = measured

C14_Witness ==
    /\ measured # <<>>
    /\ Len(hashA) = MaxHexLen
    /\ Len(hashB) = MaxHexLen
    /\ measured.ok
    /\ measured.distance > 0
    /\ hashA[1] # hashB[1]
    /\ hashA[2] # hashB[2]

\* C13: the distance of two fingerprints made by generateHashFromDCT is a
\* number from 0 to 63, and the distance of each of them to itself is 0.
C13_DistanceRange ==
    measured # <<>> =>
        /\ measured.ok
        /\ measured.distance >= 0
        /\ measured.distance <= 63
        /\ calculateHammingDistance(platform, hashA, hashA) = Returned(0)
        /\ calculateHammingDistance(platform, hashB, hashB) = Returned(0)
        /\ dct = dct2 => measured.distance = 0

C13_Witness ==
    /\ measured # <<>>
    /\ measured.ok
    /\ measured.distance > 60
    /\ hashA[1] = "F"
    /\ hashB[1] = "0"

\* the run r finishes in this step
Finishes(r) ==
    /\ r \in DOMAIN runs'
    /\ runs'[r].pc = "done"
    /\ r \in DOMAIN runs => runs[r].pc # "done"

\* C15: when a run that is not cancelled finishes without any fingerprint,
\* over no photos or over photos whose calculatePHash calls have all
\* failed, it has completed without the failure alert, the published
\* results are empty and the processing flag is cleared.
C15_NothingToMatch ==
    [][\A r \in DOMAIN runs' :
           (Finishes(r) /\ runs'[r].hashed = {} /\ runs'[r].outcome # "cancelled") =>
               /\ runs'[r].outcome = "completed"
               /\ runs'[r].rawMatches = <<>>
               /\ matchResults' = <<>>
               /\ ~processingMatches']_vars

\* a run whose only photo has failed, then a run over no photos
C15_Witness ==
    \E r, z \in DOMAIN runs :
        /\ runs[r].outcome = "completed"
        /\ runs[r].photos # <<>>
        /\ runs[r].hashed = {}
        /\ Range(runs[r].hashCalls) = Range(runs[r].photos)
        /\ runs[z].outcome = "completed"
        /\ runs[z].photos = <<>>
        /\ matchResults = <<>>
        /\ ~processingMatches

\* C16: no photo id is in two different candidates of the result of
\* processMatchesWithDeduplication.
C16_DisjointResult ==
    stages.done =>
        \A i, j \in 1..Len(stages.result) :
            i # j => PhotoIdSet(stages.result[i]) \cap PhotoIdSet(stages.result[j]) = {}

\* what a group shows of a candidate: its id, photos and time window
GroupView(entries) ==
    {[id |-> entries[k].id, photos |-> entries[k].photos,
      timeWindow |-> entries[k].timeWindow] : k \in 1..Len(entries)}

\* C17: once a run has completed and none is running, the match groups are
\* the current match results with status approved.
C17_GroupsAreApproved ==
    (/\ runs # <<>>
     /\ \A r \in DOMAIN runs : runs[r].pc = "done"
     /\ runs[Len(runs)].outcome = "completed"
     /\ pendingLoads = 0) =>
        GroupView(matchGroups)
            = GroupView(SelectSeq(matchResults, LAMBDA m : m.status = "approved"))

\* C18: for every matrix of coefficients the native and the web
\* generateHashFromDCT return the same string of 16 characters, and the
\* native and the JavaScript Hamming distance of the fingerprints agree.
C18_SamePaths ==
    pHash # <<>> =>
        /\ Len(pHash) = 16
        /\ generateHashFromDCTNative(dct) = generateHashFromDCTWeb(dct)
        /\ \A h \in {generateHashFromDCTNative(dct), generateHashFromDCTWeb(dct)} :
               hammingDistance(pHash, h) = hammingDistanceJS(pHash, h)

\* the raw candidates of run r before and after a step
RawBefore(r) == IF r \in DOMAIN runs THEN runs[r].rawMatches ELSE <<>>

RawAfter(r) == runs'[r].rawMatches

\* the k-th raw candidate of the run holds its seed and the neighbours of
\* the seed and no other photo, and no other raw candidate has that seed
ExactMembers(run, k) ==
    LET p == run.rawMatches[k].id[2]
    IN  /\ Range(run.rawMatches[k].photos) = {p} \cup Neighbours(run, p)
        /\ SeededBy(run, p) = {k}

\* C19: in every step the raw candidates of a run stay as they are, so no
\* photo hashed later is ever added to one, and each raw candidate the step
\* adds holds its seed P and exactly the photos that have a fingerprint now
\* that the batch of P has completed, lie within 15 minutes of P and at
\* distance 20 or less, and is the only raw candidate of the run seeded by P.
C19_Membership ==
    [][\A r \in DOMAIN runs' :
           /\ Len(RawAfter(r)) >= Len(RawBefore(r))
           /\ SubSeq(RawAfter(r), 1, Len(RawBefore(r))) = RawBefore(r)
           /\ \A k \in (Len(RawBefore(r)) + 1)..Len(RawAfter(r)) :
                  ExactMembers(runs'[r], k)]_vars

\* T2 seeds in the first batch and T1, within its window and near it, is
\* hashed in the second: T1 is not in the candidate of T2, T2 is in that of T1
C19_Witness ==
    \E r \in DOMAIN runs :
        /\ runs[r].outcome = "completed"
        /\ runs[r].hashed = {21, 22, 23, 24, 25, 26}
        /\ \E k \in SeededBy(runs[r], 22) : Range(runs[r].rawMatches[k].photos) = {22, 23}
        /\ \E k \in SeededBy(runs[r], 21) : Range(runs[r].rawMatches[k].photos) = {21, 22, 23}
        /\ calculateHammingDistance(platform, pHashOf(runs[r], 22), pHashOf(runs[r], 21)).distance <= 20

\* at least two photos, no id twice, oldest first, and a window that does
\* not end before it starts
WellFormed(m) ==
    /\ Len(m.photos) >= 2
    /\ \A i, j \in 1..Len(m.photos) : i # j => m.photos[i] # m.photos[j]
    /\ \A i \in 1..(Len(m.photos) - 1) :
           CreationTimeOf(m.photos[i]) <= CreationTimeOf(m.photos[i + 1])
    /\ m.timeWindow.start <= m.timeWindow.end

\* C20: every raw candidate of every run and every published match result
\* is well formed, in every state, also after photos have been deleted.
C20_WellFormed ==
    /\ \A r \in DOMAIN runs : \A k \in 1..Len(runs[r].rawMatches) :
           WellFormed(runs[r].rawMatches[k])
    /\ \A k \in 1..Len(matchResults) : WellFormed(matchResults[k])

\* a published result of three photos has lost one of them to a deletion
C20_Witness ==
    /\ deletions > 0
    /\ \E k \in 1..Len(matchResults) : \E r \in DOMAIN runs :
           \E j \in 1..Len(runs[r].rawMatches) :
               /\ runs[r].rawMatches[j].id = matchResults[k].id
               /\ Len(runs[r].rawMatches[j].photos) = 3
               /\ Len(matchResults[k].photos) = 2

\* the calculatePHash calls of run r before a step
CallsBefore(r) == IF r \in DOMAIN runs THEN runs[r].hashCalls ELSE <<>>

\* the photos of the run newest first, each photo of the input once
NewestFirst(run) ==
    /\ Len(run.sortedPhotos) = Len(run.photos)
    /\ Range(run.sortedPhotos) = Range(run.photos)
    /\ \A k \in 1..(Len(run.sortedPhotos) - 1) :
           CreationTimeOf(run.sortedPhotos[k]) >= CreationTimeOf(run.sortedPhotos[k + 1])

\* the step starts the hashing of a batch of run r: the batch is the next 5
\* photos of the order (or those that are left), every earlier call has
\* settled and the seed loop over the batch before has come to its end
BatchStarts(r) ==
    LET run == runs'[r]
        n == Len(CallsBefore(r))
    IN  /\ run.pc = "hashing"
        /\ Len(run.hashCalls) = Min2(n + batchSize, Len(run.sortedPhotos))
        /\ run.hashCalls = SubSeq(run.sortedPhotos, 1, Len(run.hashCalls))
        /\ run.batch = SubSeq(run.sortedPhotos, n + 1, Len(run.hashCalls))
        /\ Len(run.photosWithHashes) = n
        /\ n > 0 => /\ r \in DOMAIN runs
                    /\ runs[r].pc \in {"hashing", "comparing", "pauseWait"}
                    /\ run.seed > Len(run.newBatch)
                    /\ run.newBatch = SubSeq(run.sortedPhotos, n - Len(run.newBatch) + 1, n)

\* C21: the photos of a run are ordered newest first; calculatePHash calls
\* are only added, in batches of at most 5 consecutive photos of that order;
\* a batch is started only when every call of the batches before has settled
\* and the matching of the batch before has finished; and no photo is hashed
\* twice in a run.
C21_BatchOrder ==
    [][\A r \in DOMAIN runs' :
           /\ NewestFirst(runs'[r])
           /\ Len(runs'[r].hashCalls) >= Len(CallsBefore(r))
           /\ SubSeq(runs'[r].hashCalls, 1, Len(CallsBefore(r))) = CallsBefore(r)
           /\ runs'[r].hashCalls # CallsBefore(r) => BatchStarts(r)
           /\ Cardinality(Range(runs'[r].hashCalls)) = Len(runs'[r].hashCalls)]_vars

\* the second batch of six photos is being hashed after the comparisons of
\* the first
C21_Witness ==
    \E r \in DOMAIN runs :
        /\ runs[r].pc = "hashing"
        /\ Len(runs[r].hashCalls) = batchSize + 1
        /\ Len(runs[r].batch) = 1
        /\ runs[r].comparisons > 0
        /\ runs[r].rawMatches # <<>>

\* the sum of the distances of the seed p to the other photos of a list
RECURSIVE SumSeedDistances(_, _, _)
SumSeedDistances(run, p, photos) ==
    IF photos = <<>> THEN 0
    ELSE (IF Head(photos) = p THEN 0
          ELSE calculateHammingDistance(platform, pHashOf(run, p),
                                        pHashOf(run, Head(photos))).distance)
         + SumSeedDistances(run, p, Tail(photos))

\* the mean distance of the seed of the k-th raw candidate to its neighbours
SeedMean(run, k) ==
    LET m == run.rawMatches[k]
    IN  Rat(SumSeedDistances(run, m.id[2], m.photos), Len(m.photos) - 1)

\* the k-th raw candidate carries the mean over its neighbours and
\* max(0, 100 - 3 * mean), a number from 0 to 100
ScoreOfMean(run, k) ==
    LET m == run.rawMatches[k]
        mean == SeedMean(run, k)
    IN  /\ RatEQ(m.hammingDistance, mean)
        /\ RatEQ(m.confidence, Rat(Max2(0, 100 * mean.d - 3 * mean.n), mean.d))
        /\ ~RatLT(m.confidence, Rat(0, 1))
        /\ ~RatGT(m.confidence, Rat(100, 1))

\* of two raw candidates the one with the larger mean has no larger confidence
ScoreFalls(a, b) ==
    RatGT(a.hammingDistance, b.hammingDistance) => ~RatGT(a.confidence, b.confidence)

\* C22: each raw candidate a step adds has as hammingDistance the mean of
\* the distances of its seed to its other photos and as confidence
\* max(0, 100 - 3 * mean), between 0 and 100; and among the raw candidates
\* of all runs a larger mean never comes with a larger confidence.
C22_Score ==
    [][\A r \in DOMAIN runs' :
           \A k \in (Len(RawBefore(r)) + 1)..Len(RawAfter(r)) :
               /\ ScoreOfMean(runs'[r], k)
               /\ \A q \in DOMAIN runs' : \A j \in 1..Len(RawAfter(q)) :
                      /\ ScoreFalls(RawAfter(r)[k], RawAfter(q)[j])
                      /\ ScoreFalls(RawAfter(q)[j], RawAfter(r)[k])]_vars

\* the candidate of T1 with T2 at distance 2 and T3 at distance 5: the mean
\* over the neighbours is 7/2 (over all pairs it would be 4), and the
\* candidate of T2 with T3 at distance 5 has the smaller confidence
C22_Witness ==
    \E r \in DOMAIN runs :
        \E k, j \in 1..Len(runs[r].rawMatches) :
            /\ runs[r].rawMatches[k].id[2] = 21
            /\ Len(runs[r].rawMatches[k].photos) = 3
            /\ RatEQ(runs[r].rawMatches[k].hammingDistance, Rat(7, 2))
            /\ RatEQ(runs[r].rawMatches[k].confidence, Rat(179, 2))
            /\ runs[r].rawMatches[j].id[2] = 22
            /\ RatEQ(runs[r].rawMatches[j].confidence, Rat(85, 1))

\* confidence * photos.length of a candidate
ScoreOf(m) == RatTimes(m.confidence, Len(m.photos))

\* the member of a cluster with the largest score, the earliest of those
BestMember(cluster) ==
    cluster[CHOOSE i \in 1..Len(cluster) :
                \A j \in 1..Len(cluster) :
                    /\ ~RatGT(ScoreOf(cluster[j]), ScoreOf(cluster[i]))
                    /\ j < i => RatLT(ScoreOf(cluster[j]), ScoreOf(cluster[i]))]

\* C23: advancedDeduplication returns one candidate for each cluster of
\* identifyPhotoClusters: the only member of a cluster of one, and of a
\* larger cluster the earliest member with the largest confidence *
\* photoCount; the list it returns is in order of non-increasing confidence.
C23_Representatives ==
    stages.done =>
        LET out == stages.representatives
            clusters == stages.clusters
        IN  /\ Len(out) = Len(clusters)
            /\ Range(out) = {BestMember(clusters[c]) : c \in 1..Len(clusters)}
            /\ \A c \in 1..Len(clusters) :
                   Len(clusters[c]) = 1 => clusters[c][1] \in Range(out)
            /\ \A i \in 1..(Len(out) - 1) : ~RatLT(out[i].confidence, out[i + 1].confidence)

\* a cluster of two candidates of different size that tie in confidence *
\* photoCount (80 * 3 and 60 * 4): the earlier one is returned, and a second
\* cluster of one is returned as it is
C23_Witness ==
    /\ stages.done
    /\ Len(stages.clusters) = 2
    /\ Len(stages.clusters[1]) = 2
    /\ Len(stages.clusters[2]) = 1
    /\ RatEQ(ScoreOf(stages.clusters[1][1]), ScoreOf(stages.clusters[1][2]))
    /\ Len(stages.clusters[1][1].photos) # Len(stages.clusters[1][2].photos)
    /\ stages.clusters[1][1] \in Range(stages.representatives)
    /\ stages.clusters[2][1] \in Range(stages.representatives)

\* the place of a candidate in the input list
PlaceOf(m) == CHOOSE i \in 1..Len(rawIn) : rawIn[i] = m

OverlapsSeed(seed, m) == RatGT(calculatePhotoOverlap(seed, m), Rat(3, 10))

\* C24: every candidate of the input is in exactly one cluster; the seed of
\* a cluster is the first candidate of the input that is in no earlier
\* cluster; every other member overlaps the seed of its cluster by more than
\* 0.3 and the seed of no earlier cluster, whatever its overlap with the
\* other members.
C24_SeedClusters ==
    stages.done =>
        LET clusters == stages.clusters
            places == {<<c, k>> : c \in 1..Len(clusters), k \in 1..MaxRaw}
            members == {ck \in places : ck[2] <= Len(clusters[ck[1]])}
        IN  /\ \A i \in 1..Len(rawIn) :
                   Cardinality({ck \in members : clusters[ck[1]][ck[2]] = rawIn[i]}) = 1
            /\ Cardinality(members) = Len(rawIn)
            /\ \A c \in 1..Len(clusters) :
                   /\ clusters[c] # <<>>
                   /\ \A ck \in members :
                          ck[1] >= c => PlaceOf(clusters[c][1])
                                            <= PlaceOf(clusters[ck[1]][ck[2]])
                   /\ \A k \in 2..Len(clusters[c]) :
                          /\ OverlapsSeed(clusters[c][1], clusters[c][k])
                          /\ PlaceOf(clusters[c][k - 1]) < PlaceOf(clusters[c][k])
                          /\ \A e \in 1..(c - 1) :
                                 ~OverlapsSeed(clusters[e][1], clusters[c][k])
                   /\ \A e \in 1..(c - 1) : ~OverlapsSeed(clusters[e][1], clusters[c][1])

\* three candidates in one cluster, the two that joined the seed
\* overlapping each other by 0.3 or less
C24_Witness ==
    /\ stages.done
    /\ Len(stages.clusters) = 1
    /\ Len(stages.clusters[1]) = 3
    /\ ~OverlapsSeed(stages.clusters[1][2], stages.clusters[1][3])

\* the published result m is the raw candidate raw, or what is left of it
PublishedFrom(m, raw) == m.id = raw.id

\* C25: a raw candidate of two photos whose distance is above 10 is never
\* among the published results, although the generator makes such pairs up
\* to distance 20; and every raw candidate has a mean distance of at most 20
\* and a window of exactly 30 minutes, so the filter drops a raw candidate
\* only by its rule for pairs below confidence 70.
C25_PairThreshold ==
    \A r \in DOMAIN runs : \A k \in 1..Len(runs[r].rawMatches) :
        LET raw == runs[r].rawMatches[k]
        IN  /\ (Len(raw.photos) = 2 /\ RatGT(raw.hammingDistance, Rat(10, 1))) =>
                   /\ \A j \in 1..Len(matchResults) : ~PublishedFrom(matchResults[j], raw)
                   /\ \A j \in 1..Len(runs[r].deduplicatedMatches) :
                          ~PublishedFrom(runs[r].deduplicatedMatches[j], raw)
            /\ ~RatGT(raw.hammingDistance, Rat(20, 1))
            /\ raw.timeWindow.end - raw.timeWindow.start = 30 * MinuteMs
            /\ validMatch(raw) <=> ~(Len(raw.photos) = 2 /\ RatLT(raw.confidence, Rat(70, 1)))

\* a completed run has made the pair of M1 and M3 at distance 12 from both
\* seeds and has published nothing
C25_Witness ==
    \E r \in DOMAIN runs :
        /\ runs[r].outcome = "completed"
        /\ Len(runs[r].rawMatches) = 2
        /\ \A k \in 1..2 :
               /\ runs[r].rawMatches[k].photos = <<31, 33>>
               /\ RatEQ(runs[r].rawMatches[k].hammingDistance, Rat(12, 1))
               /\ RatEQ(runs[r].rawMatches[k].confidence, Rat(64, 1))
        /\ runs[r].publications = 3
        /\ matchResults = <<>>

\* the runs in progress
ActiveRuns == {r \in DOMAIN runs : runs[r].pc # "done"}

\* C26: at most one run is in progress, and every published match result
\* comes from a raw candidate of the latest run.
C26_SingleRun ==
    /\ Cardinality(ActiveRuns) <= 1
    /\ \A j \in 1..Len(matchResults) : matchResults[j].id[3] = Len(runs)

\* C27: a published match result that the user has approved or rejected is
\* not pending after any step in which it is still published.
C27_DecisionsPersist ==
    [][\A j \in 1..Len(matchResults) : \A k \in 1..Len(matchResults') :
           (/\ matchResults[j].id = matchResults'[k].id
            /\ matchResults[j].status # "pending")
               => matchResults'[k].status # "pending"]_vars

\* every run started comes to its end and the processing flag is cleared
RunsFinish ==
    /\ processingMatches ~> ~processingMatches
    /\ (runs # <<>>) ~> (\A r \in DOMAIN runs : runs[r].pc = "done")

\* a run waiting in the pause loop stays there in a step that begins with
\* the pause flag set and the cancel flag clear
PauseLoopHolds ==
    \A r \in DOMAIN runs :
        (runs[r].pc = "pauseWait" /\ processingPausedRef /\ ~processingCancelledRef)
            => (runs'[r].pc = "pauseWait" /\ processingMatches')

\* no run finishes in a step that begins and ends with the pause flag set
\* and the cancel flag clear
PausedNeverFinishes ==
    \A r \in DOMAIN runs :
        (/\ runs[r].pc # "done"
         /\ processingPausedRef /\ processingPausedRef'
         /\ ~processingCancelledRef /\ ~processingCancelledRef')
            => runs'[r].pc # "done"

RECURSIVE SumBits(_)
SumBits(bits) == IF bits = <<>> THEN 0 ELSE Head(bits) + SumBits(Tail(bits))

\* the number of one-bits the hex digits of a fingerprint spell
OneBits(hash) == SumBits(EncodedBits(hash))

\* C29: a fingerprint made by generateHashFromDCT on either platform has at
\* most 31 one-bits, so never the 63 ones of an all-ones fingerprint, and
\* the distance measured between two such fingerprints is at most 62 and at
\* most the sum of their one-bits.
C29_HalfWeight ==
    /\ hashA # <<>> =>
           /\ OneBits(hashA) <= 31
           /\ OneBits(hashB) <= 31
    /\ measured # <<>> =>
           /\ measured.ok
           /\ measured.distance <= 62
           /\ measured.distance <= OneBits(hashA) + OneBits(hashB)

\* two fingerprints of 31 one-bits each with no one-bit in common
C29_Witness ==
    /\ measured # <<>>
    /\ OneBits(hashA) = 31
    /\ OneBits(hashB) = 31
    /\ measured.ok
    /\ measured.distance = 62

(***************************************************************************)
(* The view quota counter (ViewCounter).  The object holds `state`, null   *)
(* until a call has loaded or made it; AsyncStorage holds the item the     *)
(* last completed setItem wrote.  An async method runs without             *)
(* interruption up to its next await, so a call in flight is at one of its *)
(* awaits: the getItem of initialize, the saveState of a first-time        *)
(* initialize, the return of initialize to decrementView, or the saveState *)
(* that ends decrementView and resetCounter.  AsyncStorage serves its      *)
(* requests one at a time in the order they were made, and a request may   *)
(* be rejected.  lastUpdated (Date.now()) is left out.                     *)
(***************************************************************************)
INITIAL_VIEW_COUNT == 100

MaxInFlight == 3

CallIds == 1..MaxInFlight

\* the state a first-time user, a failed load and resetCounter start from
FreshState == [remainingViews |-> INITIAL_VIEW_COUNT, totalViews |-> 0]

\* JSON.stringify(this.state): the text of the two numbers
JSONstringify(value) == <<value.remainingViews, value.totalViews>>

\* JSON.parse(stored)
JSONparse(text) == [remainingViews |-> text[1], totalViews |-> text[2]]

NoCall == [op |-> "none", pc |-> "idle", item |-> <<>>]

\* a call at an await; item is the text handed to a pending setItem
Awaiting(op, pc, item) == [op |-> op, pc |-> pc, item |-> item]

InitCounter ==
    /\ state = <<>>
    /\ storage = <<>>
    /\ calls = [c \in CallIds |-> NoCall]
    /\ requests = <<>>
    /\ HashIdle
    /\ DedupeIdle
    /\ GalleryIdle

\* decrementView from `if (this.state!.remainingViews > 0)` to its end
decrementBody(c) ==
    IF state.remainingViews > 0
    THEN LET lowered == [remainingViews |-> state.remainingViews - 1,
                         totalViews |-> state.totalViews + 1]
         IN  /\ state' = lowered
             /\ calls' = [calls EXCEPT ![c] =
                              Awaiting("decrementView", "saveState", JSONstringify(lowered))]
             /\ requests' = Append(requests, c)
    ELSE /\ state' = state
         /\ calls' = [calls EXCEPT ![c] = NoCall]
         /\ requests' = requests

\* decrementView() is called: it awaits initialize() when the state is null
decrementView(c) ==
    /\ calls[c] = NoCall
    /\ IF state = <<>>
       THEN /\ calls' = [calls EXCEPT ![c] = Awaiting("decrementView", "getItem", <<>>)]
            /\ requests' = Append(requests, c)
            /\ state' = state
       ELSE decrementBody(c)
    /\ UNCHANGED <<storage, platform, dedupeVars, hashVars, galleryVars>>

\* the getItem of initialize() settles: the stored state is parsed, a
\* first-time state is made and saved, or the fallback state is set when the
\* read is rejected
GetItemSettles(c) ==
    /\ requests # <<>>
    /\ Head(requests) = c
    /\ calls[c].pc = "getItem"
    /\ \E resolved \in BOOLEAN :
           IF resolved /\ storage # <<>>
           THEN /\ state' = JSONparse(storage)
                /\ calls' = [calls EXCEPT ![c] = Awaiting(calls[c].op, "initialized", <<>>)]
                /\ requests' = Tail(requests)
           ELSE IF resolved
           THEN /\ state' = FreshState
                /\ calls' = [calls EXCEPT ![c] =
                                 Awaiting(calls[c].op, "initSave", JSONstringify(FreshState))]
                /\ requests' = Append(Tail(requests), c)
           ELSE /\ state' = FreshState
                /\ calls' = [calls EXCEPT ![c] = Awaiting(calls[c].op, "initialized", <<>>)]
                /\ requests' = Tail(requests)
    /\ UNCHANGED <<storage, platform, dedupeVars, hashVars, galleryVars>>

\* the setItem of saveState settles; a rejection is logged and dropped
SetItemSettles(c) ==
    /\ requests # <<>>
    /\ Head(requests) = c
    /\ calls[c].pc \in {"initSave", "saveState"}
    /\ requests' = Tail(requests)
    /\ \E resolved \in BOOLEAN :
           storage' = IF resolved THEN calls[c].item ELSE storage
    /\ calls' = [calls EXCEPT ![c] =
                     IF calls[c].pc = "initSave"
                     THEN Awaiting(calls[c].op, "initialized", <<>>)
                     ELSE NoCall]
    /\ UNCHANGED <<state, platform, dedupeVars, hashVars, galleryVars>>

\* initialize() has returned and decrementView goes on
InitializeReturns(c) ==
    /\ calls[c].pc = "initialized"
    /\ decrementBody(c)
    /\ UNCHANGED <<storage, platform, dedupeVars, hashVars, galleryVars>>

\* resetCounter() is called
resetCounter(c) ==
    /\ calls[c] = NoCall
    /\ state' = FreshState
    /\ calls' = [calls EXCEPT ![c] =
                     Awaiting("resetCounter", "saveState", JSONstringify(FreshState))]
    /\ requests' = Append(requests, c)
    /\ UNCHANGED <<storage, platform, dedupeVars, hashVars, galleryVars>>

NextCounter ==
    \/ \E c \in CallIds : decrementView(c)
    \/ \E c \in CallIds : GetItemSettles(c)
    \/ \E c \in CallIds : SetItemSettles(c)
    \/ \E c \in CallIds : InitializeReturns(c)
    \/ \E c \in CallIds : resetCounter(c)

SpecCounter == InitCounter /\ [][NextCounter]_vars

(***************************************************************************)
(* Properties of the view quota counter.                                   *)
(***************************************************************************)
\* the counter stays within 0..100 and the two numbers add up to 100, in the
\* object and in the stored item
ViewBounds ==
    /\ state # <<>> =>
           /\ state.remainingViews \in 0..INITIAL_VIEW_COUNT
           /\ state.remainingViews + state.totalViews = INITIAL_VIEW_COUNT
    /\ storage # <<>> =>
           /\ JSONparse(storage).remainingViews \in 0..INITIAL_VIEW_COUNT
           /\ JSONparse(storage).remainingViews + JSONparse(storage).totalViews
                  = INITIAL_VIEW_COUNT

\* the call c passes the test of remainingViews in this step (a call made
\* at 0 with the state set returns at once and is no step at all)
DecrementActs(c) ==
    /\ state # <<>>
    /\ \/ /\ calls[c].pc = "initialized"
          /\ calls'[c] # calls[c]
       \/ /\ calls[c] = NoCall
          /\ calls'[c].op = "decrementView"
          /\ calls'[c].pc = "saveState"

\* resetCounter is called in this step
ResetActs(c) ==
    /\ calls[c] = NoCall
    /\ calls'[c].op = "resetCounter"

\* a decrementView at 0 changes nothing and one above 0 takes exactly one view
DecrementByOne ==
    \A c \in CallIds :
        DecrementActs(c) =>
            IF state.remainingViews = 0
            THEN state' = state
            ELSE /\ state'.remainingViews = state.remainingViews - 1
                 /\ state'.totalViews = state.totalViews + 1

\* a view taken stays taken: once the counter is set, only a decrementView
\* or a resetCounter changes it
ViewsStayTaken ==
    (state # <<>> /\ state' # state) =>
        \E c \in CallIds : DecrementActs(c) \/ ResetActs(c)

\* what holds of the counter: the bounds and the single steps
ViewCounterSteps ==
    /\ []ViewBounds
    /\ [][DecrementByOne]_vars

\* C30: from a first-time initialisation and under any calls of
\* decrementView and resetCounter, calls made before the first
\* initialisation has finished included, remainingViews is within 0..100 and
\* remainingViews + totalViews = 100, a decrementView at 0 changes nothing,
\* and every decrementView above 0 lowers remainingViews by exactly 1: the
\* view it takes stays taken until a resetCounter.
C30_ViewQuota ==
    /\ []ViewBounds
    /\ [][DecrementByOne]_vars
    /\ [][ViewsStayTaken]_vars

====
